---------------------------- MODULE Spec2Model ----------------------------
(***************************************************************************)
(* The chat processors of agent-starter-python/src/utils:                  *)
(* process_gemma_chat (gemma_processor.py), process_openai_chat            *)
(* (openai_processor.py), process_gemma_ollama_chat                        *)
(* (gemma_processor_ollama.py), process_bedrock_chat                       *)
(* (bedrock_processor.py), process_mistral_chat (mistral_processor.py)     *)
(* and process_langgraph_chat (langgraph_processor.py), with the helpers   *)
(* they call (process_function_call, feed_function_result_to_llm,          *)
(* parse_mistral_function_calls, execute_function_call, get_weather):      *)
(* the serialization of chat_ctx for the backend, the extraction of tool   *)
(* calls from the streamed text, and the memory kept between calls.        *)
(*                                                                         *)
(* A text is a sequence of symbols.  Every symbol stands for a fixed piece *)
(* of text (one character, or a run of characters that the backend never   *)
(* splits in the streams considered here); the concatenation of a text's   *)
(* symbols is the Python string.  Stream fragments, buffers, message       *)
(* contents, results and yielded chunks are all texts.                     *)
(***************************************************************************)
EXTENDS Integers, Sequences, FiniteSets, TLC

---------------------------------------------------------------------------
(* Symbols *)

LB    == "{"
RB    == "}"
LSQ   == "["
RSQ   == "]"
QT    == "\""
COMMA == ","
SP    == " "
CH    == "a"
\* whole string literals: "docs", "Paris", "fahrenheit"
STR   == "\"docs\""
PARIS == "\"Paris\""
FAHR  == "\"fahrenheit\""

StrLiterals == {STR, PARIS, FAHR}

\* the characters between the quotes of a string literal
LiteralText(s) ==
    CASE s = STR   -> << "docs" >>
      [] s = PARIS -> << "Paris" >>
      [] OTHER     -> << "fahrenheit" >>
\* the two halves of the Mistral marker "[TOOL_CALLS]"
TOOL_ == "[TOOL_"
CALLS == "CALLS]"
\* object keys; the name keys carry a whole "name" member and the key of the
\* member that follows it
K_DOC     == "\"name\":\"get_documentation\",\"parameters\":"
K_CTX     == "\"name\":\"get_context\",\"parameters\":"
K_BOGUS   == "\"name\":\"bogus\",\"parameters\":"
K_QUERY   == "\"query\":"
K_WEATHER == "\"name\":\"get_weather\",\"arguments\":"
K_BOGUSA  == "\"name\":\"bogus\",\"arguments\":"
K_CITY    == "\"city\":"
K_UNIT    == "\"unit\":"

KeySymbols == {K_DOC, K_CTX, K_BOGUS, K_QUERY, K_WEATHER, K_BOGUSA, K_CITY, K_UNIT}

\* the members a key symbol puts in front of the value that follows it, and
\* the key that value is stored under
KeyName(k) ==
    CASE k = K_DOC     -> "get_documentation"
      [] k = K_CTX     -> "get_context"
      [] k = K_BOGUS   -> "bogus"
      [] k = K_WEATHER -> "get_weather"
      [] k = K_BOGUSA  -> "bogus"
      [] OTHER         -> ""

KeyOfValue(k) ==
    CASE k = K_DOC     -> "parameters"
      [] k = K_CTX     -> "parameters"
      [] k = K_BOGUS   -> "parameters"
      [] k = K_QUERY   -> "query"
      [] k = K_WEATHER -> "arguments"
      [] k = K_BOGUSA  -> "arguments"
      [] k = K_CITY    -> "city"
      [] OTHER         -> "unit"

\* whether the characters of symbol s include the character c
\* (c one of "{", "}", "[", "]")
HasChar(s, c) ==
    \/ s = c
    \/ s = TOOL_ /\ c = LSQ
    \/ s = CALLS /\ c = RSQ

---------------------------------------------------------------------------
(* Python string operations on texts *)

\* a faulty variant of Contains that finds c wherever there is a '}'
ContainsOrClosing(text, c) ==
    \E i \in 1..Len(text) : HasChar(text[i], c) \/ text[i] = RB

\* c in text
Contains(text, c) == \E i \in 1..Len(text) : HasChar(text[i], c)

\* "[TOOL_CALLS]" in text
ContainsMarker(text) ==
    \E i \in 1..(Len(text) - 1) : text[i] = TOOL_ /\ text[i + 1] = CALLS

\* text.find(c), 1-based; 0 when absent
Find(text, c) ==
    IF Contains(text, c)
    THEN CHOOSE i \in 1..Len(text) :
            /\ HasChar(text[i], c)
            /\ \A j \in 1..(i - 1) : ~HasChar(text[j], c)
    ELSE 0

\* the brace-counting loop: +1 for every '{', -1 for every '}'
RECURSIVE BraceCount(_)
BraceCount(text) ==
    IF text = << >> THEN 0
    ELSE (IF Head(text) = LB THEN 1 ELSE IF Head(text) = RB THEN -1 ELSE 0)
         + BraceCount(Tail(text))

\* text.strip()
RECURSIVE LStrip(_)
LStrip(text) ==
    IF text # << >> /\ Head(text) = SP THEN LStrip(Tail(text)) ELSE text

RECURSIVE RStrip(_)
RStrip(text) ==
    IF text # << >> /\ text[Len(text)] = SP
    THEN RStrip(SubSeq(text, 1, Len(text) - 1))
    ELSE text

Strip(text) == RStrip(LStrip(text))

\* re.sub(r'\s+', ' ', text)
RECURSIVE CollapseSpaces(_)
CollapseSpaces(text) ==
    IF Len(text) < 2 THEN text
    ELSE IF text[1] = SP /\ text[2] = SP
         THEN CollapseSpaces(Tail(text))
         ELSE << Head(text) >> \o CollapseSpaces(Tail(text))

---------------------------------------------------------------------------
(* json.loads on texts.  A JSON value is a record: a string                *)
(* [t |-> "str", s |-> text], an object [t |-> "obj", m |-> <<members>>]   *)
(* with members [k |-> key, v |-> value] in insertion order, or an array   *)
(* [t |-> "arr", a |-> <<values>>].                                        *)

JStr(text) == [t |-> "str", s |-> text]
JObj(map)  == [t |-> "obj", m |-> map]
JArr(vals) == [t |-> "arr", a |-> vals]
EmptyMap   == << >>

\* d[key] = val on the members of a dict: a key already there keeps its place
DictSet(m, key, val) ==
    IF \E i \in 1..Len(m) : m[i].k = key
    THEN [i \in 1..Len(m) |-> IF m[i].k = key THEN [k |-> key, v |-> val] ELSE m[i]]
    ELSE Append(m, [k |-> key, v |-> val])

ParseFail == [ok |-> FALSE, v |-> JStr(<< >>), n |-> 0]
ParseOk(val, next) == [ok |-> TRUE, v |-> val, n |-> next]

RECURSIVE SkipWs(_, _)
SkipWs(s, i) == IF i <= Len(s) /\ s[i] = SP THEN SkipWs(s, i + 1) ELSE i

\* index of the quote that closes the string opened before position i; 0 if
\* the string is not closed or a symbol that holds quotes breaks it
RECURSIVE StringEnd(_, _)
StringEnd(s, i) ==
    IF i > Len(s) THEN 0
    ELSE IF s[i] = QT THEN i
    ELSE IF s[i] \in KeySymbols \cup StrLiterals THEN 0
    ELSE StringEnd(s, i + 1)

RECURSIVE ParseValue(_, _)
RECURSIVE ParseMembers(_, _, _)
RECURSIVE ParseElems(_, _, _)

\* members of an object from position i (after '{' or ','), m the members
\* read so far; a later duplicate key replaces the earlier one
ParseMembers(s, i, m) ==
    LET k == SkipWs(s, i) IN
    IF k > Len(s) \/ s[k] \notin KeySymbols THEN ParseFail
    ELSE LET r == ParseValue(s, k + 1) IN
         IF ~r.ok THEN ParseFail
         ELSE LET withName == IF KeyName(s[k]) = "" THEN m
                              ELSE DictSet(m, "name", JStr(<< KeyName(s[k]) >>))
                  m2 == DictSet(withName, KeyOfValue(s[k]), r.v)
                  j  == SkipWs(s, r.n)
              IN IF j > Len(s) THEN ParseFail
                 ELSE IF s[j] = RB THEN ParseOk(JObj(m2), j + 1)
                 ELSE IF s[j] = COMMA THEN ParseMembers(s, j + 1, m2)
                 ELSE ParseFail

\* elements of an array from position i (after '[' or ','), a the elements
\* read so far
ParseElems(s, i, a) ==
    LET r == ParseValue(s, i) IN
    IF ~r.ok THEN ParseFail
    ELSE LET j == SkipWs(s, r.n) IN
         IF j > Len(s) THEN ParseFail
         ELSE IF s[j] = RSQ THEN ParseOk(JArr(Append(a, r.v)), j + 1)
         ELSE IF s[j] = COMMA THEN ParseElems(s, j + 1, Append(a, r.v))
         ELSE ParseFail

ParseValue(s, i) ==
    LET k == SkipWs(s, i) IN
    IF k > Len(s) THEN ParseFail
    ELSE IF s[k] = QT THEN
         LET e == StringEnd(s, k + 1) IN
         IF e = 0 THEN ParseFail ELSE ParseOk(JStr(SubSeq(s, k + 1, e - 1)), e + 1)
    ELSE IF s[k] \in StrLiterals THEN ParseOk(JStr(LiteralText(s[k])), k + 1)
    ELSE IF s[k] = LB THEN
         LET j == SkipWs(s, k + 1) IN
         IF j <= Len(s) /\ s[j] = RB THEN ParseOk(JObj(EmptyMap), j + 1)
         ELSE ParseMembers(s, k + 1, EmptyMap)
    ELSE IF s[k] = LSQ THEN
         LET j == SkipWs(s, k + 1) IN
         IF j <= Len(s) /\ s[j] = RSQ THEN ParseOk(JArr(<< >>), j + 1)
         ELSE ParseElems(s, k + 1, << >>)
    ELSE ParseFail

\* json.loads(text): [ok |-> FALSE] stands for JSONDecodeError
JsonLoads(text) ==
    LET r == ParseValue(text, 1) IN
    IF r.ok /\ SkipWs(text, r.n) = Len(text) + 1 THEN r ELSE ParseFail

\* dict.get(key, default) on a parsed object
DictGet(obj, key, default) ==
    IF \E i \in 1..Len(obj.m) : obj.m[i].k = key
    THEN obj.m[CHOOSE i \in 1..Len(obj.m) : obj.m[i].k = key].v
    ELSE default

---------------------------------------------------------------------------
(* process_function_call of gemma_processor.py and of                      *)
(* gemma_processor_ollama.py: the two differ in the function they know     *)

\* a faulty variant of ExtractJson: the text from the first '{' to the last
\* '}' at which the brace count is back to zero
ExtractJsonLast(content) ==
    LET json_start == Find(content, LB)
        ends == IF json_start = 0 THEN {}
                ELSE { i \in json_start..Len(content) :
                         /\ content[i] = RB
                         /\ BraceCount(SubSeq(content, json_start, i)) = 0 }
    IN IF ends = {} THEN << >>
       ELSE LET json_end == CHOOSE i \in ends : \A j \in ends : i >= j
            IN SubSeq(content, json_start, json_end)

\* the text from the first '{' to the first '}' at which the brace count is
\* back to zero; << >> when content has no '{' or no such '}'
ExtractJson(content) ==
    LET json_start == Find(content, LB)
        ends == IF json_start = 0 THEN {}
                ELSE { i \in json_start..Len(content) :
                         /\ content[i] = RB
                         /\ BraceCount(SubSeq(content, json_start, i)) = 0 }
    IN IF ends = {} THEN << >>
       ELSE LET json_end == CHOOSE i \in ends : \A j \in ends : i <= j
            IN SubSeq(content, json_start, json_end)

\* function_call_json after the clean-up of streaming artifacts
CleanJson(content) == Strip(CollapseSpaces(ExtractJson(content)))

\* Python truthiness of a parsed value
Truthy(v) ==
    CASE v.t = "str" -> v.s # << >>
      [] v.t = "obj" -> v.m # << >>
      [] OTHER       -> v.a # << >>

\* The part of process_function_call before any await, known the name of
\* the function it dispatches on.  kind says how the call ends: "none"
\* (returns ""), "invalid" (JSONDecodeError), "invoke" (it goes on to await
\* get_context_qdrant(query)), "noquery", "unknown", or "raised" (an
\* exception caught by the outer handler).
CallPlan(content, known) ==
    LET json == CleanJson(content)
        p    == JsonLoads(json)
        none == JStr(<< "None" >>)
        name == IF p.ok THEN DictGet(p.v, "name", none) ELSE none
        params == IF p.ok THEN DictGet(p.v, "parameters", JObj(EmptyMap))
                  ELSE JObj(EmptyMap)
        query == IF params.t = "obj" THEN DictGet(params, "query", JStr(<< >>))
                 ELSE JStr(<< >>)
        kind == IF ExtractJson(content) = << >> THEN "none"
                ELSE IF ~p.ok THEN "invalid"
                ELSE IF name = JStr(<< known >>)
                     THEN IF params.t # "obj" THEN "raised"
                          ELSE IF Truthy(query) THEN "invoke"
                          ELSE "noquery"
                     ELSE "unknown"
    IN [kind |-> kind, json |-> json, name |-> name.s, query |-> query,
        ptype |-> IF params.t = "str" THEN "str" ELSE "list"]

\* process_function_call of gemma_processor.py
FunctionCallPlan(content) == CallPlan(content, "get_documentation")

\* process_function_call of gemma_processor_ollama.py
OllamaFunctionCallPlan(content) == CallPlan(content, "get_context")

\* a faulty variant of FunctionCallResult that returns "" for a capability
\* that is unknown or that raised
FunctionCallResultSilent(plan, context_result) ==
    CASE plan.kind = "invalid" -> << "Error: Invalid function call format" >>
      [] plan.kind = "invoke"  -> << "Context found: " >> \o context_result
      [] plan.kind = "noquery" -> << "Error: No query provided for context search" >>
      [] OTHER -> << >>

\* a faulty variant of FunctionCallResult that reports content without a
\* complete JSON object as an invalid call
FunctionCallResultNoJson(plan, context_result) ==
    CASE plan.kind \in {"none", "invalid"} ->
              << "Error: Invalid function call format" >>
      [] plan.kind = "invoke"  -> << "Context found: " >> \o context_result
      [] plan.kind = "noquery" -> << "Error: No query provided for context search" >>
      [] plan.kind = "unknown" -> << "Error: Unknown function '" >> \o plan.name \o << "'" >>
      [] OTHER -> << "Error processing function call: '", plan.ptype,
                     "' object has no attribute 'get'" >>

\* the string process_function_call returns; context_result is what
\* get_context_qdrant returned (used by kind "invoke" only)
FunctionCallResult(plan, context_result) ==
    CASE plan.kind = "none"    -> << >>
      [] plan.kind = "invalid" -> << "Error: Invalid function call format" >>
      [] plan.kind = "invoke"  -> << "Context found: " >> \o context_result
      [] plan.kind = "noquery" -> << "Error: No query provided for context search" >>
      [] plan.kind = "unknown" -> << "Error: Unknown function '" >> \o plan.name \o << "'" >>
      [] OTHER -> << "Error processing function call: '", plan.ptype,
                     "' object has no attribute 'get'" >>

---------------------------------------------------------------------------
(* Helpers of openai_processor.py *)

\* str(value) of a parsed value, as an f-string formats it
RECURSIVE PyRepr(_)
RECURSIVE PyReprMembers(_)
RECURSIVE PyReprElems(_)
PyReprMembers(m) ==
    IF m = << >> THEN << >>
    ELSE << "'", m[1].k, "': " >> \o PyRepr(m[1].v)
         \o (IF Len(m) > 1 THEN << ", " >> ELSE << >>) \o PyReprMembers(Tail(m))
PyReprElems(a) ==
    IF a = << >> THEN << >>
    ELSE PyRepr(a[1])
         \o (IF Len(a) > 1 THEN << ", " >> ELSE << >>) \o PyReprElems(Tail(a))
PyRepr(v) ==
    CASE v.t = "str" -> << "'" >> \o v.s \o << "'" >>
      [] v.t = "obj" -> << LB >> \o PyReprMembers(v.m) \o << RB >>
      [] OTHER       -> << LSQ >> \o PyReprElems(v.a) \o << RSQ >>

\* city.lower()
Lower(text) == [i \in 1..Len(text) |-> IF text[i] = "Paris" THEN "paris" ELSE text[i]]

\* get_weather: the static table, with the default for other cities;
\* temperatures in tenths of a degree
WeatherData(city_lower) ==
    CASE city_lower = << "new york" >> -> [temp |-> 220, condition |-> "sunny", humidity |-> "65"]
      [] city_lower = << "london" >>   -> [temp |-> 150, condition |-> "cloudy", humidity |-> "78"]
      [] city_lower = << "tokyo" >>    -> [temp |-> 280, condition |-> "partly cloudy", humidity |-> "70"]
      [] city_lower = << "sydney" >>   -> [temp |-> 250, condition |-> "rainy", humidity |-> "85"]
      [] city_lower = << "paris" >>    -> [temp |-> 180, condition |-> "overcast", humidity |-> "72"]
      [] OTHER                         -> [temp |-> 200, condition |-> "clear", humidity |-> "60"]

\* json.dumps(get_weather(city, unit)) for strings city and unit
WeatherJson(city, unit) ==
    LET base_data == WeatherData(Lower(city))
        temp == IF unit = << "fahrenheit" >>
                THEN (base_data.temp * 9) \div 5 + 320
                ELSE base_data.temp
    IN << "{\"city\": \"" >> \o city
       \o << "\", \"temperature\": " >>
       \o (IF unit = << "fahrenheit" >>
           THEN << ToString(temp \div 10), ".", ToString(temp % 10) >>
           ELSE << ToString(temp \div 10) >>)
       \o << ", \"unit\": \"" >> \o unit
       \o << "\", \"condition\": \"", base_data.condition,
             "\", \"humidity\": ", base_data.humidity, "}" >>

ErrorJson(message) == << "{\"error\": \"" >> \o message \o << "\"}" >>

\* execute_function_call(function_name, arguments): function_name and
\* arguments parsed values.  get_weather(**arguments) raises TypeError unless
\* arguments is a dict with "city" and at most "unit" besides, and
\* AttributeError unless city is a string; both are caught.
execute_function_call(function_name, arguments) ==
    IF function_name = JStr(<< "get_weather" >>)
    THEN IF arguments.t # "obj"
         THEN ErrorJson(<< "argument after ** must be a mapping" >>)
         ELSE IF \E i \in 1..Len(arguments.m) : arguments.m[i].k \notin {"city", "unit"}
         THEN ErrorJson(<< "get_weather() got an unexpected keyword argument" >>)
         ELSE IF ~\E i \in 1..Len(arguments.m) : arguments.m[i].k = "city"
         THEN ErrorJson(<< "get_weather() missing 1 required positional argument: 'city'" >>)
         ELSE IF DictGet(arguments, "city", JStr(<< >>)).t # "str"
         THEN ErrorJson(<< "object has no attribute 'lower'" >>)
         ELSE IF DictGet(arguments, "unit", JStr(<< "celsius" >>)).t # "str"
         THEN WeatherJson(DictGet(arguments, "city", JStr(<< >>)).s,
                          PyRepr(DictGet(arguments, "unit", JStr(<< >>))))
         ELSE WeatherJson(DictGet(arguments, "city", JStr(<< >>)).s,
                          DictGet(arguments, "unit", JStr(<< "celsius" >>)).s)
    ELSE ErrorJson(<< "Unknown function: " >> \o function_name.s)

\* the text group(1) of the first match of \[TOOL_CALLS\]\s*(\[.*?\]) in
\* content: from the '[' that follows the marker and blanks to the first ']'
\* after it; << >> when the pattern does not match
MistralCapture(content) ==
    LET starts == { m \in 1..(Len(content) - 1) :
                      /\ content[m] = TOOL_ /\ content[m + 1] = CALLS
                      /\ SkipWs(content, m + 2) <= Len(content)
                      /\ HasChar(content[SkipWs(content, m + 2)], LSQ)
                      /\ \E e \in (SkipWs(content, m + 2) + 1)..Len(content) :
                            HasChar(content[e], RSQ) }
    IN IF starts = {} THEN << >>
       ELSE LET m == CHOOSE x \in starts : \A y \in starts : x <= y
                j == SkipWs(content, m + 2)
                e == CHOOSE x \in (j + 1)..Len(content) :
                        /\ HasChar(content[x], RSQ)
                        /\ \A y \in (j + 1)..(x - 1) : ~HasChar(content[y], RSQ)
            IN SubSeq(content, j, e)

\* parse_mistral_function_calls(content): the list of parsed calls, << >>
\* when nothing matches or the match is not JSON
parse_mistral_function_calls(content) ==
    LET json_str == MistralCapture(content)
        function_calls == JsonLoads(json_str)
    IN IF json_str = << >> \/ ~function_calls.ok THEN << >>
       ELSE function_calls.v.a

\* the loop over function_calls: an element that is no dict raises at .get
\* and is skipped; every other one is executed and its result collected
RECURSIVE FunctionResults(_)
FunctionResults(function_calls) ==
    IF function_calls = << >> THEN << >>
    ELSE LET func_call == Head(function_calls)
             function_name == DictGet(func_call, "name", JStr(<< "None" >>))
             arguments == DictGet(func_call, "arguments", JObj(EmptyMap))
         IN (IF func_call.t # "obj" THEN << >>
             ELSE << [function_name |-> function_name,
                      arguments |-> arguments,
                      result |-> execute_function_call(function_name, arguments)] >>)
            \o FunctionResults(Tail(function_calls))

\* results_text.strip(): one line per result, the last newline stripped
RECURSIVE ResultsText(_)
ResultsText(function_results) ==
    IF function_results = << >> THEN << >>
    ELSE << "Function " >> \o Head(function_results).function_name.s
         \o << " called with " >> \o PyRepr(Head(function_results).arguments)
         \o << ": " >> \o Head(function_results).result
         \o (IF Len(function_results) > 1 THEN << "\n" >> ELSE << >>)
         \o ResultsText(Tail(function_results))

---------------------------------------------------------------------------
(* Inputs *)

\* how many chunks without content a stream may carry
MaxEmpty == 1

\* a well-formed call of get_documentation
DocCall == << LB, K_DOC, LB, K_QUERY, STR, RB, RB >>

\* a call of get_documentation followed at once by a call of bogus
TwoCalls == DocCall \o << LB, K_BOGUS, LB, RB, RB >>

\* the texts the Gemma backend may stream in answer to the first request
GemmaTexts ==
    { << CH, SP, CH >>,                               \* plain text
      << CH, RB, CH >>,                               \* a lone '}' in plain text
      DocCall,                                        \* a call and nothing else
      << CH >> \o DocCall \o << CH >>,                \* prefix, call, suffix
      << LB, K_BOGUS, LB, RB, RB >>,                  \* unknown capability
      << LB, K_DOC, LB, RB, RB >>,                    \* no query
      << LB, K_DOC, STR, RB, CH >>,                   \* parameters not an object
      << LB, K_DOC, LB, K_QUERY, STR, COMMA, RB, RB, CH >>,  \* trailing comma
      << LB, K_DOC, LB, K_QUERY, QT, RB, QT, RB, RB >>,   \* '}' in the query
      << LB, K_DOC, LB, K_QUERY, QT, LB, QT, RB, RB >>,   \* '{' in the query
      << SP, LB, K_DOC, LB, K_QUERY, QT, SP, SP, QT, RB, RB >>, \* blanks
      << RB, LB, CH >>,                               \* '}' before '{'
      TwoCalls,                                       \* two calls in a row
      DocCall \o << RB, CH >> }                       \* a surplus '}' after a call

\* the texts the backend may stream in answer to a resume request
ResumeTexts ==
    { << >>, << CH, CH >>, DocCall }

\* a well-formed call of get_context
CtxCall == << LB, K_CTX, LB, K_QUERY, STR, RB, RB >>

\* the texts Ollama may stream in answer to the first request
OllamaTexts ==
    { << CH, SP, CH >>,                               \* plain text
      CtxCall,                                        \* a call and nothing else
      << CH >> \o CtxCall \o << CH >>,                \* prefix, call, suffix
      << LB, K_BOGUS, LB, RB, RB, CH >>,              \* unknown capability
      << LB, K_CTX, STR, RB >>,                       \* parameters not an object
      << LB, K_CTX, LB, K_QUERY, STR, COMMA, RB, RB >>,   \* trailing comma
      << RB, LB, CH >> }                              \* '}' before '{'

\* the HTTP statuses Ollama may answer with
Statuses == {"200", "500"}

\* the texts Bedrock may stream
BedrockTexts ==
    { << CH, SP, CH >>, << CH, LB, CH >>, << LSQ, CH, RSQ >> }

\* the texts the graph of process_mistral_chat may stream as AI message
\* chunks
MistralTexts ==
    { << CH, SP, CH >>,                               \* plain text
      << CH, LSQ, CH, RSQ, CH >>,                     \* brackets in plain text
      << LSQ, LB, K_WEATHER, LB, K_CITY, PARIS, RB, RB, RSQ, CH >>,  \* a call as text
      << LB, K_WEATHER, LB, RB, RB, CH >> }           \* a call without brackets

\* a well-formed Mistral call of get_weather
WeatherCall == << TOOL_, CALLS, LSQ, LB, K_WEATHER, LB, K_CITY, PARIS, RB, RB, RSQ >>

\* the texts the OpenAI-compatible backend may stream in answer to the first
\* request
OpenAITexts ==
    { << >>,
      << CH, SP, CH >>,                               \* plain text
      << CH, LB, RSQ, CH >>,                          \* braces and brackets, no marker
      WeatherCall,                                    \* a call and nothing else
      << CH >> \o WeatherCall \o << CH >>,            \* prefix, call, suffix
      << TOOL_, CALLS, LSQ, LB, K_BOGUSA, LB, RB, RB, RSQ >>,   \* unknown function
      << TOOL_, CALLS, LSQ, LB, K_WEATHER, STR, RB, RSQ >>,     \* get_weather raises
      << TOOL_, CALLS, LSQ, STR, RSQ, CH >>,          \* a call that is no object
      << TOOL_, CALLS, LSQ, LB, RSQ, CH >> }          \* payload that is not JSON

\* a stream of the OpenAI-compatible backend: its text and its native deltas
OpenAIStream(text, tools) == [text |-> text, tools |-> tools]

ToolDelta(id, name, arguments) == [id |-> id, name |-> name, arguments |-> arguments]

\* the native tool_calls deltas a stream may carry before its last chunk
NativeStreams ==
    { << >>,
      << ToolDelta("call_1", << "get_weather" >>, << LB, K_CITY, PARIS, RB >>) >>,
      << ToolDelta("call_1", << "get_weather" >>, << LB, K_CITY >>),
         ToolDelta("None", << >>, << PARIS, RB >>) >>,
      << ToolDelta("call_1", << "bogus" >>, << LB, RB >>) >>,
      << ToolDelta("call_1", << "get_weather" >>, << LB >>) >> }

\* native deltas come with no text or with plain text
OpenAIStreams ==
    { OpenAIStream(t, << >>) : t \in OpenAITexts }
    \cup { OpenAIStream(t, n) : t \in { << >>, << CH, SP, CH >> }, n \in NativeStreams }

\* what get_context_qdrant may return (tools.py: it never raises)
ContextResults ==
    { << "docs" >>,
      << "No relevant context found in the knowledge base." >>,
      << "Error retrieving context: down" >> }

Msg(role, content) == [role |-> role, content |-> content]

\* the histories a caller may pass in
ChatContexts ==
    { << Msg("user", << CH >>) >>,
      << Msg("system", << CH >>), Msg("user", << CH >>) >> }

\* the fragments a backend may cut from the front of text
Fragments(text) == { SubSeq(text, 1, n) : n \in 1..Len(text) }

Drop(text, n) == SubSeq(text, n + 1, Len(text))

---------------------------------------------------------------------------
(* Serialization of chat_ctx for the backend *)

\* a chat item whose content is a list: its parts are strings and images
ListMsg(role, parts) == [role |-> role, parts |-> parts]
StrPart(text) == [type |-> "str", text |-> text]
\* an image given as the data URL "data:<media_type>;base64,<data>"
ImagePart(media_type, data) ==
    [type |-> "image_content",
     image |-> [media_type |-> media_type, data |-> data]]

IsList(msg) == "parts" \in DOMAIN msg
IsStrPart(item) == item.type = "str"
IsImagePart(item) == item.type = "image_content"

TextBlock(text) == [type |-> "text", text |-> text]

\* the block made of an image: the OpenAI format keeps the data URL, the
\* Bedrock format splits it in media type and data
ImageBlock(kind, image) ==
    IF kind = "image_url" THEN [type |-> "image_url", url |-> image]
    ELSE [type |-> "image", media_type |-> image.media_type,
          data |-> image.data]

\* sep.join(texts)
RECURSIVE Join(_, _)
Join(texts, sep) ==
    IF texts = << >> THEN << >>
    ELSE IF Len(texts) = 1 THEN texts[1]
    ELSE texts[1] \o sep \o Join(Tail(texts), sep)

\* text_parts of a list content
TextParts(msg) ==
    [i \in 1..Len(SelectSeq(msg.parts, IsStrPart)) |->
        SelectSeq(msg.parts, IsStrPart)[i].text]

\* content_blocks of a chat item: the joined text first, then the images,
\* which are taken from the last item only
ContentBlocks(msg, is_last, kind) ==
    IF IsList(msg)
    THEN (IF TextParts(msg) # << >>
          THEN << TextBlock(Join(TextParts(msg), << SP >>)) >> ELSE << >>)
         \o (IF is_last
             THEN [i \in 1..Len(SelectSeq(msg.parts, IsImagePart)) |->
                     ImageBlock(kind, SelectSeq(msg.parts, IsImagePart)[i].image)]
             ELSE << >>)
    ELSE << TextBlock(msg.content) >>

\* raw_messages: the items that are no system items and have blocks
RECURSIVE RawMessages(_, _, _)
RawMessages(items, idx, kind) ==
    IF idx > Len(items) THEN << >>
    ELSE (IF items[idx].role # "system"
             /\ ContentBlocks(items[idx], idx = Len(items), kind) # << >>
          THEN << [role |-> items[idx].role,
                   content |-> ContentBlocks(items[idx], idx = Len(items), kind)] >>
          ELSE << >>)
         \o RawMessages(items, idx + 1, kind)

HasTextBlock(content) ==
    \E j \in 1..Len(content) : content[j].type = "text"

\* next(block for block in merged_content if block["type"] == "text")
ExistingText(content) ==
    CHOOSE j \in 1..Len(content) :
        /\ content[j].type = "text"
        /\ \A k \in 1..(j - 1) : content[k].type # "text"

\* the blocks of one message merged into merged_content: text joins the
\* first text block, anything else is added
RECURSIVE MergeBlocks(_, _)
MergeBlocks(merged_content, blocks) ==
    IF blocks = << >> THEN merged_content
    ELSE MergeBlocks(
           IF Head(blocks).type = "text" /\ HasTextBlock(merged_content)
           THEN [merged_content EXCEPT ![ExistingText(merged_content)].text =
                    @ \o << SP >> \o Head(blocks).text]
           ELSE Append(merged_content, Head(blocks)),
           Tail(blocks))

\* a faulty variant of RunEnd that ends every run after its first message
RunEndAtOnce(raw_messages, i, role) == i + 1

\* the index after the run of messages of one role that starts at i
RECURSIVE RunEnd(_, _, _)
RunEnd(raw_messages, i, role) ==
    IF i <= Len(raw_messages) /\ raw_messages[i].role = role
    THEN RunEnd(raw_messages, i + 1, role)
    ELSE i

\* the messages i..j-1 merged into merged_content
RECURSIVE MergeRun(_, _, _, _)
MergeRun(merged_content, raw_messages, i, j) ==
    IF i >= j THEN merged_content
    ELSE MergeRun(MergeBlocks(merged_content, raw_messages[i].content),
                  raw_messages, i + 1, j)

\* function_instructions.strip() of process_gemma_chat
GEMMA_INSTRUCTIONS == << "# HubSpot Assistant Prompt ..." >>

\* the text blocks of a system item added to system_content
RECURSIVE SystemBlocksText(_)
SystemBlocksText(blocks) ==
    IF blocks = << >> THEN << >>
    ELSE (IF Head(blocks).type = "text" THEN Head(blocks).text \o << SP >>
          ELSE << >>)
         \o SystemBlocksText(Tail(blocks))

RECURSIVE GemmaSystemFrom(_, _)
GemmaSystemFrom(items, idx) ==
    IF idx > Len(items) THEN << >>
    ELSE (IF items[idx].role = "system"
          THEN SystemBlocksText(ContentBlocks(items[idx], idx = Len(items),
                                              "image_url"))
          ELSE << >>)
         \o GemmaSystemFrom(items, idx + 1)

\* system_content that leaves the system items out
GemmaSystemContentBare(items) ==
    GEMMA_INSTRUCTIONS \o << SP >>

\* system_content after the first pass
GemmaSystemContent(items) ==
    GEMMA_INSTRUCTIONS \o << SP >> \o GemmaSystemFrom(items, 1)

\* the second pass of process_gemma_chat from raw_messages[i] on: runs of
\* user messages are merged, the first run starts with the system content,
\* and a user message is made of the system content when there is no run
RECURSIVE GemmaSecondPass(_, _, _, _)
GemmaSecondPass(raw_messages, i, first_user_message_processed, system_content) ==
    IF i > Len(raw_messages)
    THEN IF ~first_user_message_processed /\ system_content # << >>
         THEN << [role |-> "user",
                  content |-> << TextBlock(Strip(system_content)) >>] >>
         ELSE << >>
    ELSE IF raw_messages[i].role = "user"
    THEN << [role |-> "user",
             content |->
                MergeRun(IF ~first_user_message_processed /\ system_content # << >>
                         THEN << TextBlock(Strip(system_content)) >>
                         ELSE << >>,
                         raw_messages, i, RunEnd(raw_messages, i, "user"))] >>
         \o GemmaSecondPass(raw_messages, RunEnd(raw_messages, i, "user"),
                            first_user_message_processed \/ system_content # << >>,
                            system_content)
    ELSE << raw_messages[i] >>
         \o GemmaSecondPass(raw_messages, i + 1, first_user_message_processed,
                            system_content)

\* messages of the first request of process_gemma_chat
GemmaMessages(items) ==
    GemmaSecondPass(RawMessages(items, 1, "image_url"), 1, FALSE,
                    GemmaSystemContent(items))

SYSTEM_HEAD == "System Instructions:\n"
NL          == "\n"
USER_TAIL   == "\n\nUser: "

\* system_instructions: a string content, or every string of a list content
RECURSIVE SystemInstructions(_)
SystemInstructions(items) ==
    IF items = << >> THEN << >>
    ELSE (IF Head(items).role # "system" THEN << >>
          ELSE IF IsList(Head(items)) THEN TextParts(Head(items))
          ELSE << Head(items).content >>)
         \o SystemInstructions(Tail(items))

\* the text put in front of the first user message
SystemText(system_instructions) ==
    << SYSTEM_HEAD >> \o Join(system_instructions, << NL >>) \o << USER_TAIL >>

\* the merging loop of process_openai_chat from raw_messages[i] on: runs of
\* one role are merged; a run of user messages starts with the system text
\* when no message has been made yet
RECURSIVE OpenAISecondPass(_, _, _, _)
OpenAISecondPass(raw_messages, i, messages, system_instructions) ==
    IF i > Len(raw_messages) THEN messages
    ELSE IF raw_messages[i].role \in {"user", "assistant"}
    THEN OpenAISecondPass(
           raw_messages, RunEnd(raw_messages, i, raw_messages[i].role),
           Append(messages,
                  [role |-> raw_messages[i].role,
                   content |->
                      MergeRun(IF /\ raw_messages[i].role = "user"
                                  /\ Len(messages) = 0
                                  /\ system_instructions # << >>
                               THEN << TextBlock(SystemText(system_instructions)) >>
                               ELSE << >>,
                               raw_messages, i,
                               RunEnd(raw_messages, i, raw_messages[i].role))]),
           system_instructions)
    ELSE OpenAISecondPass(raw_messages, i + 1, messages, system_instructions)

\* messages of the first request of process_openai_chat
OpenAIMessages(items) ==
    OpenAISecondPass(RawMessages(items, 1, "image_url"), 1, << >>,
                     SystemInstructions(items))

\* content_blocks of an item in the explanation request: a block for each
\* string of a list content, one block for any other content
ExplanationBlocks(msg) ==
    IF IsList(msg)
    THEN [i \in 1..Len(TextParts(msg)) |-> TextBlock(TextParts(msg)[i])]
    ELSE << TextBlock(msg.content) >>

\* explanation_messages: every item of chat_ctx that has blocks, under its
\* own role
RECURSIVE ExplanationMessages(_)
ExplanationMessages(items) ==
    IF items = << >> THEN << >>
    ELSE (IF ExplanationBlocks(Head(items)) # << >>
          THEN << [role |-> Head(items).role,
                   content |-> ExplanationBlocks(Head(items))] >>
          ELSE << >>)
         \o ExplanationMessages(Tail(items))

\* messages of the request of process_bedrock_chat
BedrockMessages(items) == RawMessages(items, 1, "image")

\* str(msg.content): the string, or the repr of the list
PyStr(msg) ==
    IF IsList(msg)
    THEN << LSQ >>
         \o Join([i \in 1..Len(msg.parts) |->
                    IF IsStrPart(msg.parts[i])
                    THEN << "'" >> \o msg.parts[i].text \o << "'" >>
                    ELSE << "ImageContent(...)" >>],
                 << COMMA, SP >>)
         \o << RSQ >>
    ELSE msg.content

IsSystem(msg) == msg.role = "system"

\* native_request["system"]: the system items joined, nothing without them
BedrockSystem(items) ==
    Join([i \in 1..Len(SelectSeq(items, IsSystem)) |->
            PyStr(SelectSeq(items, IsSystem)[i])],
         << SP >>)

\* the items of the histories whose serialization is examined; every item
\* has a text of its own
SerialItems ==
    { Msg("system", << "S1" >>),
      ListMsg("system", << StrPart(<< "S2" >>), StrPart(<< "S3" >>) >>),
      Msg("user", << "U1" >>),
      ListMsg("user", << ImagePart("image/png", "AAAA"), StrPart(<< "U2" >>) >>),
      ListMsg("user", << ImagePart("image/jpeg", "BBBB") >>),
      Msg("assistant", << "A1" >>) }

MaxItems == 3

\* the histories of up to MaxItems items
SerialContexts ==
    UNION { [1..n -> SerialItems] : n \in 1..MaxItems }

---------------------------------------------------------------------------
(* State *)

VARIABLES
    proc,             \* the processor called: "gemma", "openai", "ollama",
                      \* "bedrock", "mistral" or "langgraph"; "parse" when
                      \* parse_mistral_function_calls is called on its own
    pc,               \* where the generator is suspended
    chat_ctx,         \* chat_ctx.items
    pending,          \* what the original stream has still to deliver
    resume_pending,   \* what the resumed stream has still to deliver
    function_buffer,
    in_function_call,
    plan,             \* the process_function_call in progress
    tool_pending,     \* the native tool_calls deltas still to come
    accumulated_content,
    is_function_call,
    current_tool_calls,   \* the dict, as its items in insertion order
    appended,         \* messages appended to the local list `messages`
    requests,         \* backend requests issued, in order
    output,           \* fragments yielded to the caller, in order
    \* history of the run, not read by the program
    chat_ctx0,        \* the history the caller passed in
    stream_text,      \* the whole text of the original stream
    triggered,        \* a fragment holding the trigger has been delivered
    received,         \* the fragments delivered before that one
    resumed,          \* fragments delivered by the resumed stream
    calls,            \* the plans of the process_function_call calls made
    invoked,          \* the queries get_context_qdrant was called with
    executed,         \* the execute_function_call calls made, with results
    empties,          \* chunks without content delivered
    failed,           \* the backend failed
    \* process_mistral_chat
    in_tool_call_json,
    bracket_count,
    memory,           \* the messages the checkpointer holds for the thread
    \* the messages of the request last serialized for the backend
    request_messages,
    \* the system field of that request
    request_system,
    \* a turn run twice on the same inputs
    run,              \* 0: a single run; 1, 2: the first and the second run;
                      \* 3: turns that follow one another
    trace,            \* the inputs of the first run the second has yet to get;
                      \* for calls on one thread, a record of each earlier call
    first,            \* the output, the history and the graph state the first
                      \* run ended with
    \* parse_mistral_function_calls called on its own
    parse_content,    \* its argument content
    parse_result,     \* what it returned
    \* an agent that buffers video frames
    agent,            \* the file of the agent; "none" when no agent runs
    entered,          \* on_enter has run
    streams,          \* every VideoStream created: "open" or "closed"
    video_stream,     \* self._video_stream: its place in streams, 0 for None
    captured,         \* the number of frames the streams have delivered
    latest_frame,     \* self._latest_frame: the number of a frame, 0 for None
    attached,         \* for each user turn completed, the frame its message
                      \* got, 0 for none
    \* tool_node of LangGraphChatbot called on its own
    ai_tool_calls,    \* last_message.tool_calls
    tool_results,     \* the ToolMessages made so far
    tool_raised,      \* for each call handled, whether the tool raised
    \* the functions of tools.py called on their own
    entry,            \* the function called from outside
    collection_name,  \* the arguments of perform_similarity_search
    project_name,     \* (project_name also that of
                      \* normalize_collection_name)
    contacted,        \* the services a request was sent to
    search_results,   \* what perform_similarity_search returned
    formatted_context,    \* what get_context_qdrant returned
    normalized,       \* what normalize_collection_name returned
    renormalized      \* what it returned for its own result

vars == << proc, pc, chat_ctx, pending, resume_pending, function_buffer,
           in_function_call, plan, tool_pending, accumulated_content,
           is_function_call, current_tool_calls, appended, requests, output,
           chat_ctx0, stream_text, triggered, received, resumed, calls,
           invoked, executed, empties, failed, in_tool_call_json,
           bracket_count, memory, request_messages, request_system, run, trace,
           first, parse_content, parse_result, agent, entered, streams,
           video_stream, captured, latest_frame, attached, ai_tool_calls,
           tool_results, tool_raised, entry, collection_name, project_name,
           contacted, search_results, formatted_context, normalized,
           renormalized >>

parse_vars == << parse_content, parse_result >>

agent_vars == << agent, entered, streams, video_stream, captured,
                 latest_frame, attached >>

node_vars == << ai_tool_calls, tool_results, tool_raised >>

tools_vars == << entry, collection_name, project_name, contacted,
                 search_results, formatted_context, normalized,
                 renormalized >>

\* the state of what is checked on its own, apart from the processors
unit_vars == << parse_vars, agent_vars, node_vars, tools_vars >>

twin_vars == << run, trace, first >>

request_vars == << request_messages, request_system >>

\* the state only process_mistral_chat uses
more_vars == << in_tool_call_json, bracket_count, memory >>

history == << chat_ctx0, stream_text, triggered, received, resumed, calls,
              invoked, executed, empties, failed >>

\* the trigger of processor p is in fragment f: '{' for the Gemma
\* processors, the marker [TOOL_CALLS] for the OpenAI one
HoldsTrigger(p, f) ==
    IF p = "openai"
    THEN \E i \in 1..(Len(f) - 1) : f[i] = "[TOOL_" /\ f[i + 1] = "CALLS]"
    ELSE \E i \in 1..Len(f) : f[i] = "{"

\* the history of the original stream after fragment f
Delivered(f) ==
    /\ triggered' = (triggered \/ HoldsTrigger(proc, f))
    /\ received' = IF triggered \/ HoldsTrigger(proc, f) THEN received
                   ELSE Append(received, f)

\* the state of the processor that is not running
gemma_vars == << function_buffer, in_function_call, plan, calls, invoked >>
openai_vars == << tool_pending, accumulated_content, is_function_call,
                 current_tool_calls, executed >>

NoPlan == [kind |-> "none", json |-> << >>, name |-> << >>,
           query |-> JStr(<< >>), ptype |-> "list"]

FALLBACK == << "I'm experiencing technical difficulties with the language model." >>

\* the fallback responses of gemma_processor_ollama.py
OLLAMA_STATUS_FALLBACK == << "I'm having trouble connecting to the language model." >>
OLLAMA_FALLBACK == << "I'm experiencing technical difficulties." >>
FEED_STATUS_FALLBACK == << "I had trouble processing the context information." >>
FEED_FALLBACK == << "I encountered an error while processing the function result." >>

\* no agent runs
NoAgent ==
    /\ agent = "none"
    /\ entered = FALSE
    /\ streams = << >>
    /\ video_stream = 0
    /\ captured = 0
    /\ latest_frame = 0
    /\ attached = << >>

\* parse_mistral_function_calls is not called
NoParse ==
    /\ parse_content = << >>
    /\ parse_result = << >>

\* tool_node is not called
NoToolNode ==
    /\ ai_tool_calls = << >>
    /\ tool_results = << >>
    /\ tool_raised = << >>

\* None, where a name or a text may stand
None == << "None" >>

\* the value of search_results before perform_similarity_search returns
NotReturned == << [returned |-> FALSE] >>

\* no function of tools.py is called
NoTools ==
    /\ entry = "none"
    /\ collection_name = None
    /\ project_name = None
    /\ contacted = { }
    /\ search_results = NotReturned
    /\ formatted_context = None
    /\ normalized = None
    /\ renormalized = None

\* the state when a processor is entered with the history chat_ctx
ProcessorEntry ==
    /\ in_tool_call_json = FALSE
    /\ bracket_count = 0
    /\ memory = << >>
    /\ request_messages = << >>
    /\ request_system = << >>
    /\ pc = "request"
    /\ tool_pending = << >>
    /\ accumulated_content = << >>
    /\ is_function_call = FALSE
    /\ current_tool_calls = << >>
    /\ executed = << >>
    /\ chat_ctx0 = chat_ctx
    /\ pending = << >>
    /\ resume_pending = << >>
    /\ function_buffer = << >>
    /\ in_function_call = FALSE
    /\ plan = NoPlan
    /\ appended = << >>
    /\ requests = << >>
    /\ output = << >>
    /\ stream_text = << >>
    /\ triggered = FALSE
    /\ received = << >>
    /\ resumed = << >>
    /\ calls = << >>
    /\ invoked = << >>
    /\ empties = 0
    /\ failed = FALSE

\* the state when a processor is entered and nothing else runs
EntryState ==
    /\ NoAgent
    /\ NoToolNode
    /\ NoTools
    /\ parse_content = << >>
    /\ parse_result = << >>
    /\ ProcessorEntry

\* an input of a run: the answer to a request, a chunk, a chunk without
\* content, the answer of the capability, the end or the failure of a stream
Input(kind, text) == [kind |-> kind, text |-> text]

\* the streams of the turns that are run twice
TwiceTexts ==
    { << CH, SP, CH >>, << CH >> \o DocCall \o << CH >>, << RB, LB, CH >>,
      << LB, K_DOC, LB, RB, RB >> }

TwiceResumeTexts == { << >>, << CH, CH >> }

Admitted(input) ==
    /\ input.kind = "request" => input.text \in TwiceTexts
    /\ input.kind = "resume" => input.text \in TwiceResumeTexts

\* the first run records its input; the second run takes a step only on
\* the input the first run had next; turns that follow one another take the
\* admitted inputs and record nothing
Traced(input) ==
    IF run = 1 THEN Admitted(input) /\ trace' = Append(trace, input)
    ELSE IF run = 2
    THEN trace # << >> /\ Head(trace) = input /\ trace' = Tail(trace)
    ELSE IF run = 3 THEN Admitted(input) /\ UNCHANGED trace
    ELSE UNCHANGED trace

NoRun == [output |-> << >>, chat_ctx |-> << >>, state |-> << >>]

\* a single run
Once ==
    /\ run = 0
    /\ trace = << >>
    /\ first = NoRun

Init ==
    /\ Once
    /\ proc \in {"gemma", "openai", "ollama", "bedrock", "mistral"}
    /\ chat_ctx \in ChatContexts
                    \cup (IF proc = "mistral" THEN { << >> } ELSE { })
    /\ EntryState

---------------------------------------------------------------------------
(* process_gemma_chat *)

\* the messages appended to the local list, as they are sent: one text
\* block each
LocalMessages(msgs) ==
    [i \in 1..Len(msgs) |->
        [role |-> msgs[i].role, content |-> << TextBlock(msgs[i].content) >>]]

\* stream = await client.chat.completions.create(**request_params)
GemmaRequest ==
    /\ proc = "gemma"
    /\ pc = "request"
    /\ request_messages' = GemmaMessages(chat_ctx)
    /\ UNCHANGED request_system
    /\ pc' = "stream"
    /\ requests' = Append(requests, "initial")
    /\ pending' \in GemmaTexts
    /\ stream_text' = pending'
    /\ Traced(Input("request", pending'))
    /\ UNCHANGED << proc, unit_vars, run, first, more_vars, chat_ctx,
                    resume_pending, function_buffer, in_function_call, plan,
                    appended, output, chat_ctx0, triggered, received, resumed,
                    calls, invoked, empties, failed, openai_vars >>

\* a faulty variant of GemmaReset that may leave in_function_call set
GemmaResetUnsure ==
    /\ function_buffer' = << >>
    /\ in_function_call' \in {FALSE, TRUE}
    /\ pc' = "stream"
    /\ UNCHANGED << chat_ctx, appended >>

\* function_result is falsy: reset the state and read on
GemmaReset ==
    /\ function_buffer' = << >>
    /\ in_function_call' = FALSE
    /\ pc' = "stream"
    /\ UNCHANGED << chat_ctx, appended >>

\* the function name put in the local result message: parsed from the
\* buffer again, "get_documentation" when that fails
ResultName(buffer) ==
    LET again == JsonLoads(Drop(buffer, Find(buffer, LB) - 1)) IN
    IF again.ok THEN DictGet(again.v, "name", JStr(<< "get_documentation" >>)).s
    ELSE << "get_documentation" >>

\* function_result is truthy: record the call and its result in chat_ctx and
\* in messages, then go on to the new request
GemmaRecord(buffer, function_result) ==
    /\ chat_ctx' = chat_ctx \o
          << Msg("assistant", Strip(buffer)),
             Msg("assistant", << "Function result: " >> \o function_result) >>
    /\ \E function_name \in { ResultName(buffer) } :
         appended' = appended \o
          << Msg("assistant", function_name \o << " has a result:\n" >> \o function_result),
             Msg("user", << "You have got the context" >>) >>
    /\ function_buffer' = buffer
    /\ in_function_call' = TRUE
    /\ pc' = "resume_request"

\* a faulty variant of GemmaComplete that records the call in chat_ctx as soon
\* as it is detected, before get_context_qdrant has returned
GemmaCompleteEager(buffer) ==
    \E p \in { FunctionCallPlan(buffer) } :
      /\ calls' = Append(calls, p)
      /\ IF p.kind = "invoke"
         THEN /\ pc' = "executing"
              /\ plan' = p
              /\ invoked' = Append(invoked, p.query)
              /\ function_buffer' = buffer
              /\ in_function_call' = TRUE
              /\ chat_ctx' = Append(chat_ctx, Msg("assistant", Strip(buffer)))
              /\ UNCHANGED appended
         ELSE /\ UNCHANGED << plan, invoked >>
              /\ \E function_result \in { FunctionCallResult(p, << >>) } :
                   IF function_result # << >>
                   THEN GemmaRecord(buffer, function_result)
                   ELSE GemmaReset

\* brace_count == 0: process_function_call(function_buffer), up to its await
\* of get_context_qdrant if it has one, else to its return and what follows
GemmaComplete(buffer) ==
    \E p \in { FunctionCallPlan(buffer) } :
      /\ calls' = Append(calls, p)
      /\ IF p.kind = "invoke"
         THEN /\ pc' = "executing"
              /\ plan' = p
              /\ invoked' = Append(invoked, p.query)
              /\ function_buffer' = buffer
              /\ in_function_call' = TRUE
              /\ UNCHANGED << chat_ctx, appended >>
         ELSE /\ UNCHANGED << plan, invoked >>
              /\ \E function_result \in { FunctionCallResult(p, << >>) } :
                   IF function_result # << >>
                   THEN GemmaRecord(buffer, function_result)
                   ELSE GemmaReset

\* a faulty variant of GemmaChunk that, in the chunk that starts a call not
\* yet complete, yields the text in front of the '{' and buffers the rest
GemmaChunkFromBrace ==
    /\ proc = "gemma"
    /\ pc = "stream"
    /\ \E chunk_content \in Fragments(pending) :
         /\ pending' = Drop(pending, Len(chunk_content))
         /\ Traced(Input("chunk", chunk_content))
         /\ Delivered(chunk_content)
         /\ IF Contains(chunk_content, LB) /\ ~in_function_call
            THEN IF BraceCount(chunk_content) = 0
                 THEN GemmaComplete(chunk_content) /\ UNCHANGED output
                 ELSE \E at \in { Find(chunk_content, LB) } :
                      /\ function_buffer' = Drop(chunk_content, at - 1)
                      /\ in_function_call' = TRUE
                      /\ output' = IF at = 1 THEN output
                                   ELSE Append(output,
                                               SubSeq(chunk_content, 1, at - 1))
                      /\ UNCHANGED << pc, chat_ctx, plan, appended, calls,
                                      invoked >>
            ELSE IF in_function_call
            THEN \E buffer \in { function_buffer \o chunk_content } :
                   IF BraceCount(buffer) = 0
                   THEN GemmaComplete(buffer) /\ UNCHANGED output
                   ELSE /\ function_buffer' = buffer
                        /\ UNCHANGED << pc, chat_ctx, in_function_call, plan,
                                        appended, output, calls, invoked >>
            ELSE /\ output' = Append(output, chunk_content)
                 /\ UNCHANGED << pc, chat_ctx, function_buffer,
                                 in_function_call, plan, appended, calls,
                                 invoked >>
    /\ UNCHANGED << proc, unit_vars, run, first, more_vars, request_vars,
                    resume_pending, requests, chat_ctx0, stream_text, resumed,
                    empties, failed, openai_vars >>

\* one chunk of the original stream, with content chunk_content
GemmaChunk ==
    /\ proc = "gemma"
    /\ pc = "stream"
    /\ \E chunk_content \in Fragments(pending) :
         /\ pending' = Drop(pending, Len(chunk_content))
         /\ Traced(Input("chunk", chunk_content))
         /\ Delivered(chunk_content)
         /\ IF Contains(chunk_content, LB) /\ ~in_function_call
            THEN \* start of a function call
                 IF BraceCount(chunk_content) = 0
                 THEN GemmaComplete(chunk_content) /\ UNCHANGED output
                 ELSE /\ function_buffer' = chunk_content
                      /\ in_function_call' = TRUE
                      /\ UNCHANGED << pc, chat_ctx, plan, appended, output,
                                      calls, invoked >>
            ELSE IF in_function_call
            THEN \* continue accumulating
                 \E buffer \in { function_buffer \o chunk_content } :
                   IF BraceCount(buffer) = 0
                   THEN GemmaComplete(buffer) /\ UNCHANGED output
                   ELSE /\ function_buffer' = buffer
                        /\ UNCHANGED << pc, chat_ctx, in_function_call, plan,
                                        appended, output, calls, invoked >>
            ELSE \* regular content
                 /\ output' = Append(output, chunk_content)
                 /\ UNCHANGED << pc, chat_ctx, function_buffer,
                                 in_function_call, plan, appended, calls,
                                 invoked >>
    /\ UNCHANGED << proc, unit_vars, run, first, more_vars, request_vars,
                    resume_pending, requests, chat_ctx0, stream_text, resumed,
                    empties, failed, openai_vars >>

\* a chunk with no choices or no content is skipped
GemmaEmptyChunk ==
    /\ proc = "gemma"
    /\ pc \in {"stream", "resumed"}
    /\ empties < MaxEmpty
    /\ empties' = empties + 1
    /\ Traced(Input("empty", << >>))
    /\ UNCHANGED << proc, unit_vars, run, first, more_vars, request_vars, pc,
                    chat_ctx, pending, resume_pending, appended, requests,
                    output, chat_ctx0, stream_text, triggered, received,
                    resumed, failed, gemma_vars, openai_vars >>

\* get_context_qdrant returns and process_function_call with it
GemmaCapabilityReturns ==
    /\ proc = "gemma"
    /\ pc = "executing"
    /\ \E context_result \in ContextResults :
         /\ GemmaRecord(function_buffer, FunctionCallResult(plan, context_result))
         /\ Traced(Input("result", context_result))
    /\ plan' = NoPlan
    /\ UNCHANGED << proc, unit_vars, run, first, more_vars, request_vars,
                    pending, resume_pending, requests, output, history,
                    openai_vars >>

\* new_stream = await client.chat.completions.create(**request_params)
GemmaResumeRequest ==
    /\ proc = "gemma"
    /\ pc = "resume_request"
    /\ pc' = "resumed"
    /\ requests' = Append(requests, "resume")
    /\ resume_pending' \in ResumeTexts
    /\ Traced(Input("resume", resume_pending'))
    /\ request_messages' = request_messages \o LocalMessages(appended)
    /\ UNCHANGED << proc, unit_vars, run, first, more_vars, request_system,
                    chat_ctx, pending, function_buffer, in_function_call,
                    plan, appended, output, history, openai_vars >>

\* one chunk of the new stream: yield new_delta.content
GemmaResumedChunk ==
    /\ proc = "gemma"
    /\ pc = "resumed"
    /\ \E content \in Fragments(resume_pending) :
         /\ resume_pending' = Drop(resume_pending, Len(content))
         /\ Traced(Input("chunk", content))
         /\ resumed' = Append(resumed, content)
         /\ output' = Append(output, content)
    /\ UNCHANGED << proc, unit_vars, run, first, more_vars, request_vars, pc,
                    chat_ctx, pending, appended, requests, chat_ctx0,
                    stream_text, triggered, received, empties, failed,
                    gemma_vars, openai_vars >>

\* a faulty variant of GemmaStreamEnds that yields the text still buffered
GemmaStreamEndsFlush ==
    /\ proc = "gemma"
    /\ \/ pc = "stream" /\ pending = << >>
       \/ pc = "resumed" /\ resume_pending = << >>
    /\ pc' = "done"
    /\ output' = IF in_function_call /\ pc = "stream"
                 THEN Append(output, function_buffer) ELSE output
    /\ Traced(Input("end", << >>))
    /\ UNCHANGED << proc, unit_vars, run, first, more_vars, request_vars,
                    chat_ctx, pending, resume_pending, function_buffer,
                    in_function_call, plan, appended, requests, history,
                    openai_vars >>

\* the stream being read ends: the generator returns
GemmaStreamEnds ==
    /\ proc = "gemma"
    /\ \/ pc = "stream" /\ pending = << >>
       \/ pc = "resumed" /\ resume_pending = << >>
    /\ pc' = "done"
    /\ Traced(Input("end", << >>))
    /\ UNCHANGED << proc, unit_vars, run, first, more_vars, request_vars,
                    chat_ctx, pending, resume_pending, function_buffer,
                    in_function_call, plan, appended, requests, output,
                    history, openai_vars >>

\* a faulty variant of GemmaBackendFails that yields the fallback response
\* only when nothing has been yielded yet
GemmaBackendFailsQuiet ==
    /\ proc = "gemma"
    /\ pc \in {"request", "stream", "resume_request", "resumed"}
    /\ pc' = "done"
    /\ failed' = TRUE
    /\ requests' = IF pc = "request" THEN Append(requests, "initial")
                   ELSE IF pc = "resume_request" THEN Append(requests, "resume")
                   ELSE requests
    /\ output' = IF output = << >> THEN << FALLBACK >> ELSE output
    /\ request_messages' =
          CASE pc = "request" -> GemmaMessages(chat_ctx)
            [] pc = "resume_request" ->
                  request_messages \o LocalMessages(appended)
            [] OTHER -> request_messages
    /\ UNCHANGED request_system
    /\ Traced(Input("fail", << >>))
    /\ UNCHANGED << proc, unit_vars, run, first, more_vars, chat_ctx, pending,
                    resume_pending, appended, chat_ctx0, stream_text,
                    triggered, received, resumed, empties, gemma_vars,
                    openai_vars >>

\* the backend raises at a request or while a stream is read: the except
\* clause yields the fallback response and the generator ends
GemmaBackendFails ==
    /\ proc = "gemma"
    /\ pc \in {"request", "stream", "resume_request", "resumed"}
    /\ pc' = "done"
    /\ failed' = TRUE
    /\ requests' = IF pc = "request" THEN Append(requests, "initial")
                   ELSE IF pc = "resume_request" THEN Append(requests, "resume")
                   ELSE requests
    /\ output' = Append(output, FALLBACK)
    /\ request_messages' =
          CASE pc = "request" -> GemmaMessages(chat_ctx)
            [] pc = "resume_request" ->
                  request_messages \o LocalMessages(appended)
            [] OTHER -> request_messages
    /\ UNCHANGED request_system
    /\ Traced(Input("fail", << >>))
    /\ UNCHANGED << proc, unit_vars, run, first, more_vars, chat_ctx, pending,
                    resume_pending, appended, chat_ctx0, stream_text,
                    triggered, received, resumed, empties, gemma_vars,
                    openai_vars >>

---------------------------------------------------------------------------
(* process_openai_chat *)

\* stream = await client.chat.completions.create(**request_params)
OpenAIRequest ==
    /\ proc = "openai"
    /\ pc = "request"
    /\ request_messages' = OpenAIMessages(chat_ctx)
    /\ UNCHANGED request_system
    /\ pc' = "stream"
    /\ requests' = Append(requests, "initial")
    /\ \E stream \in OpenAIStreams :
         /\ pending' = stream.text
         /\ tool_pending' = stream.tools
    /\ stream_text' = pending'
    /\ UNCHANGED << proc, unit_vars, twin_vars, more_vars, chat_ctx,
                    resume_pending, accumulated_content, is_function_call,
                    current_tool_calls, appended, output, chat_ctx0,
                    triggered, received, resumed, calls, invoked, executed,
                    empties, failed, gemma_vars >>

\* a chunk of the original stream whose delta has content
OpenAIChunk ==
    /\ proc = "openai"
    /\ pc = "stream"
    /\ \E content \in Fragments(pending) :
         /\ pending' = Drop(pending, Len(content))
         /\ Delivered(content)
         /\ IF ~is_function_call /\ ContainsMarker(content)
            THEN \* start accumulating, don't yield
                 /\ is_function_call' = TRUE
                 /\ accumulated_content' = content
                 /\ UNCHANGED << pc, chat_ctx, output, executed >>
            ELSE IF is_function_call
            THEN \E accumulated \in { accumulated_content \o content } :
                   /\ accumulated_content' = accumulated
                   /\ UNCHANGED << is_function_call, output >>
                   /\ IF Contains(content, RSQ) /\ ContainsMarker(accumulated)
                      THEN \E function_calls \in { parse_mistral_function_calls(accumulated) } :
                             IF function_calls # << >>
                             THEN \E function_results \in { FunctionResults(function_calls) } :
                                    /\ executed' = executed \o function_results
                                    /\ IF function_results # << >>
                                       THEN /\ chat_ctx' = chat_ctx \o
                                                 << Msg("assistant",
                                                        << "I called the following functions:\n" >>
                                                        \o ResultsText(function_results)),
                                                    Msg("user",
                                                        << "You got the weather result, explain this." >>) >>
                                            /\ pc' = "explain_request"
                                       ELSE \* return
                                            /\ pc' = "done"
                                            /\ UNCHANGED chat_ctx
                             ELSE UNCHANGED << pc, chat_ctx, executed >>
                      ELSE UNCHANGED << pc, chat_ctx, executed >>
            ELSE \* regular content, yield immediately
                 /\ output' = Append(output, content)
                 /\ UNCHANGED << pc, chat_ctx, accumulated_content,
                                 is_function_call, executed >>
    /\ UNCHANGED << proc, unit_vars, twin_vars, more_vars, request_vars,
                    resume_pending, tool_pending, current_tool_calls,
                    appended, requests, chat_ctx0, stream_text, resumed,
                    calls, invoked, empties, failed, function_buffer,
                    in_function_call, plan >>

\* current_tool_calls after the delta tool_call: a new entry under an id not
\* seen before, then the name and the arguments added to that id's entry
AccumulateToolCall(tool_calls, tool_call) ==
    LET known == \E i \in 1..Len(tool_calls) : tool_calls[i].id = tool_call.id
        withId == IF known THEN tool_calls
                  ELSE Append(tool_calls, [id |-> tool_call.id,
                                           function_name |-> << >>,
                                           arguments |-> << >>])
    IN [i \in 1..Len(withId) |->
          IF withId[i].id = tool_call.id
          THEN [id |-> withId[i].id,
                function_name |-> withId[i].function_name \o tool_call.name,
                arguments |-> withId[i].arguments \o tool_call.arguments]
          ELSE withId[i]]

\* a chunk of the original stream whose delta has tool_calls
OpenAIToolCallDelta ==
    /\ proc = "openai"
    /\ pc = "stream"
    /\ tool_pending # << >>
    /\ tool_pending' = Tail(tool_pending)
    /\ current_tool_calls' = AccumulateToolCall(current_tool_calls, Head(tool_pending))
    /\ UNCHANGED << proc, unit_vars, twin_vars, more_vars, request_vars, pc,
                    chat_ctx, pending, resume_pending, accumulated_content,
                    is_function_call, appended, requests, output, history,
                    gemma_vars >>

\* the loop over current_tool_calls at finish_reason "tool_calls": a call
\* whose arguments are not JSON is skipped, every other one is executed
RECURSIVE NativeResults(_)
NativeResults(tool_calls) ==
    IF tool_calls = << >> THEN << >>
    ELSE LET call == Head(tool_calls)
             arguments == JsonLoads(call.arguments)
         IN (IF ~arguments.ok THEN << >>
             ELSE << [call_id |-> call.id,
                      function_name |-> JStr(call.function_name),
                      arguments_str |-> call.arguments,
                      arguments |-> arguments.v,
                      result |-> execute_function_call(JStr(call.function_name),
                                                       arguments.v)] >>)
            \o NativeResults(Tail(tool_calls))

\* the assistant message with the call and the tool message with its result
RECURSIVE NativeMessages(_)
NativeMessages(results) ==
    IF results = << >> THEN << >>
    ELSE << [role |-> "assistant", content |-> << "None" >>,
             tool_call_id |-> Head(results).call_id,
             name |-> Head(results).function_name.s,
             arguments |-> Head(results).arguments_str],
            [role |-> "tool", content |-> Head(results).result,
             tool_call_id |-> Head(results).call_id,
             name |-> << >>, arguments |-> << >>] >>
         \o NativeMessages(Tail(results))

\* the last chunk of the original stream, with finish_reason "tool_calls",
\* when there are accumulated tool calls
OpenAIFinishToolCalls ==
    /\ proc = "openai"
    /\ pc = "stream"
    /\ pending = << >> /\ tool_pending = << >>
    /\ current_tool_calls # << >>
    /\ \E results \in { NativeResults(current_tool_calls) } :
         /\ executed' = executed \o
               [i \in 1..Len(results) |->
                  [function_name |-> results[i].function_name,
                   arguments |-> results[i].arguments,
                   result |-> results[i].result]]
         /\ appended' = appended \o NativeMessages(results)
    /\ pc' = "followup_request"
    /\ UNCHANGED << proc, unit_vars, twin_vars, more_vars, request_vars,
                    chat_ctx, pending, resume_pending, tool_pending,
                    accumulated_content, is_function_call, current_tool_calls,
                    requests, output, chat_ctx0, stream_text, triggered,
                    received, resumed, calls, invoked, empties, failed,
                    function_buffer, in_function_call, plan >>

\* explanation_stream / follow_up_stream = await client.chat.completions.create(...)
OpenAISecondRequest ==
    /\ proc = "openai"
    /\ pc \in {"explain_request", "followup_request"}
    /\ pc' = IF pc = "explain_request" THEN "explaining" ELSE "following"
    /\ requests' = Append(requests, IF pc = "explain_request" THEN "explanation"
                                    ELSE "followup")
    /\ resume_pending' \in ResumeTexts
    /\ request_messages' = IF pc = "explain_request"
                           THEN ExplanationMessages(chat_ctx)
                           ELSE request_messages \o appended
    /\ UNCHANGED << proc, unit_vars, twin_vars, more_vars, request_system,
                    chat_ctx, pending, appended, output, history, gemma_vars,
                    openai_vars >>

\* one chunk of the explanation or follow-up stream: yield its content
OpenAISecondChunk ==
    /\ proc = "openai"
    /\ pc \in {"explaining", "following"}
    /\ \E content \in Fragments(resume_pending) :
         /\ resume_pending' = Drop(resume_pending, Len(content))
         /\ resumed' = Append(resumed, content)
         /\ output' = Append(output, content)
    /\ UNCHANGED << proc, unit_vars, twin_vars, more_vars, request_vars, pc,
                    chat_ctx, pending, appended, requests, chat_ctx0,
                    stream_text, triggered, received, empties, failed,
                    gemma_vars, openai_vars >>

\* a chunk with no choices, or with neither content nor tool_calls nor
\* finish_reason "tool_calls", is skipped
OpenAIEmptyChunk ==
    /\ proc = "openai"
    /\ pc \in {"stream", "explaining", "following"}
    /\ empties < MaxEmpty
    /\ empties' = empties + 1
    /\ UNCHANGED << proc, unit_vars, twin_vars, more_vars, request_vars, pc,
                    chat_ctx, pending, resume_pending, appended, requests,
                    output, chat_ctx0, stream_text, triggered, received,
                    resumed, failed, gemma_vars, openai_vars >>

\* the stream being read ends; after the explanation the generator returns,
\* after the follow-up the original stream has nothing left
OpenAIStreamEnds ==
    /\ proc = "openai"
    /\ \/ pc = "stream" /\ pending = << >> /\ tool_pending = << >>
       \/ pc \in {"explaining", "following"} /\ resume_pending = << >>
    /\ pc' = "done"
    /\ UNCHANGED << proc, unit_vars, twin_vars, more_vars, request_vars,
                    chat_ctx, pending, resume_pending, appended, requests,
                    output, history, gemma_vars, openai_vars >>

\* the backend raises at a request or while a stream is read: the except
\* clause yields the fallback response and the generator ends
OpenAIBackendFails ==
    /\ proc = "openai"
    /\ pc \in {"request", "stream", "explain_request", "explaining",
               "followup_request", "following"}
    /\ pc' = "done"
    /\ failed' = TRUE
    /\ requests' = CASE pc = "request" -> Append(requests, "initial")
                     [] pc = "explain_request" -> Append(requests, "explanation")
                     [] pc = "followup_request" -> Append(requests, "followup")
                     [] OTHER -> requests
    /\ output' = Append(output, FALLBACK)
    /\ request_messages' =
          CASE pc = "request" -> OpenAIMessages(chat_ctx)
            [] pc = "explain_request" -> ExplanationMessages(chat_ctx)
            [] pc = "followup_request" -> request_messages \o appended
            [] OTHER -> request_messages
    /\ UNCHANGED request_system
    /\ UNCHANGED << proc, unit_vars, twin_vars, more_vars, chat_ctx, pending,
                    resume_pending, appended, chat_ctx0, stream_text,
                    triggered, received, resumed, empties, gemma_vars,
                    openai_vars >>

---------------------------------------------------------------------------
(* process_gemma_ollama_chat *)

\* session.post(ollama_url, ...): with status 200 the lines are read, with
\* any other status the fallback response is yielded and the generator ends
OllamaRequest ==
    /\ proc = "ollama"
    /\ pc = "request"
    /\ requests' = Append(requests, "initial")
    /\ \E status \in Statuses :
         IF status = "200"
         THEN /\ pc' = "stream"
              /\ pending' \in OllamaTexts
              /\ UNCHANGED << output, failed >>
         ELSE /\ pc' = "done"
              /\ failed' = TRUE
              /\ output' = Append(output, OLLAMA_STATUS_FALLBACK)
              /\ UNCHANGED pending
    /\ stream_text' = pending'
    /\ UNCHANGED << proc, unit_vars, twin_vars, more_vars, request_vars,
                    chat_ctx, resume_pending, appended, chat_ctx0, triggered,
                    received, resumed, empties, gemma_vars, openai_vars >>

\* Reset state: what follows the loop over feed_function_result_to_llm, or
\* a falsy function_result
OllamaReset ==
    /\ function_buffer' = << >>
    /\ in_function_call' = FALSE
    /\ pc' = "stream"

\* process_function_call has returned function_result: when truthy,
\* feed_function_result_to_llm builds new_messages up to its request
OllamaGoOn(buffer, function_result) ==
    IF function_result # << >>
    THEN /\ appended' = << Msg("user", << "get_context has a result:\n" >>
                                       \o function_result) >>
         /\ function_buffer' = buffer
         /\ in_function_call' = TRUE
         /\ pc' = "feed_request"
    ELSE OllamaReset /\ UNCHANGED appended

\* brace_count == 0: process_function_call(function_buffer), up to its await
\* of get_context_qdrant if it has one, else to its return and what follows
OllamaComplete(buffer) ==
    \E p \in { OllamaFunctionCallPlan(buffer) } :
      /\ calls' = Append(calls, p)
      /\ IF p.kind = "invoke"
         THEN /\ pc' = "executing"
              /\ plan' = p
              /\ invoked' = Append(invoked, p.query)
              /\ function_buffer' = buffer
              /\ in_function_call' = TRUE
              /\ UNCHANGED appended
         ELSE /\ UNCHANGED << plan, invoked >>
              /\ \E function_result \in { FunctionCallResult(p, << >>) } :
                   OllamaGoOn(buffer, function_result)

\* what the loop body does with chunk_content
OllamaContent(chunk_content) ==
    IF Contains(chunk_content, LB) /\ ~in_function_call
    THEN \* start of a function call
         IF BraceCount(chunk_content) = 0
         THEN OllamaComplete(chunk_content) /\ UNCHANGED output
         ELSE /\ function_buffer' = chunk_content
              /\ in_function_call' = TRUE
              /\ UNCHANGED << pc, plan, appended, output, calls, invoked >>
    ELSE IF in_function_call
    THEN \* continue accumulating
         \E buffer \in { function_buffer \o chunk_content } :
           IF BraceCount(buffer) = 0
           THEN OllamaComplete(buffer) /\ UNCHANGED output
           ELSE /\ function_buffer' = buffer
                /\ UNCHANGED << pc, in_function_call, plan, appended, output,
                                calls, invoked >>
    ELSE \* regular content
         /\ output' = Append(output, chunk_content)
         /\ UNCHANGED << pc, function_buffer, in_function_call, plan,
                         appended, calls, invoked >>

\* one line of the response whose message has content chunk_content
OllamaChunk ==
    /\ proc = "ollama"
    /\ pc = "stream"
    /\ \E chunk_content \in Fragments(pending) :
         /\ pending' = Drop(pending, Len(chunk_content))
         /\ Delivered(chunk_content)
         /\ OllamaContent(chunk_content)
    /\ UNCHANGED << proc, unit_vars, twin_vars, more_vars, request_vars,
                    chat_ctx, resume_pending, requests, chat_ctx0,
                    stream_text, resumed, empties, failed, openai_vars >>

\* one line of the response whose message has the content ""
OllamaEmptyContent ==
    /\ proc = "ollama"
    /\ pc = "stream"
    /\ empties < MaxEmpty
    /\ empties' = empties + 1
    /\ OllamaContent(<< >>)
    /\ UNCHANGED << proc, unit_vars, twin_vars, more_vars, request_vars,
                    chat_ctx, pending, resume_pending, requests, chat_ctx0,
                    stream_text, triggered, received, resumed, failed,
                    openai_vars >>

\* an empty line, a line that is not JSON or one without message content
OllamaSkipLine ==
    /\ proc = "ollama"
    /\ pc \in {"stream", "feeding"}
    /\ empties < MaxEmpty
    /\ empties' = empties + 1
    /\ UNCHANGED << proc, unit_vars, twin_vars, more_vars, request_vars, pc,
                    chat_ctx, pending, resume_pending, appended, requests,
                    output, chat_ctx0, stream_text, triggered, received,
                    resumed, failed, gemma_vars, openai_vars >>

\* get_context_qdrant returns and process_function_call with it
OllamaCapabilityReturns ==
    /\ proc = "ollama"
    /\ pc = "executing"
    /\ \E context_result \in ContextResults :
         OllamaGoOn(function_buffer, FunctionCallResult(plan, context_result))
    /\ plan' = NoPlan
    /\ UNCHANGED << proc, unit_vars, twin_vars, more_vars, request_vars,
                    chat_ctx, pending, resume_pending, requests, output,
                    history, openai_vars >>

\* feed_function_result_to_llm: session.post(ollama_url, ...); with a status
\* other than 200 it yields its fallback and the caller resets its state
OllamaFeedRequest ==
    /\ proc = "ollama"
    /\ pc = "feed_request"
    /\ requests' = Append(requests, "resume")
    /\ \E status \in Statuses :
         IF status = "200"
         THEN /\ pc' = "feeding"
              /\ resume_pending' \in ResumeTexts
              /\ UNCHANGED << output, function_buffer, in_function_call >>
         ELSE /\ output' = Append(output, FEED_STATUS_FALLBACK)
              /\ OllamaReset
              /\ UNCHANGED resume_pending
    /\ UNCHANGED << proc, unit_vars, twin_vars, more_vars, request_vars,
                    chat_ctx, pending, plan, appended, history, openai_vars >>

\* feed_function_result_to_llm: one line of the response, its content
\* yielded and yielded on by the caller
OllamaFeedChunk ==
    /\ proc = "ollama"
    /\ pc = "feeding"
    /\ \E content \in Fragments(resume_pending) :
         /\ resume_pending' = Drop(resume_pending, Len(content))
         /\ resumed' = Append(resumed, content)
         /\ output' = Append(output, content)
    /\ UNCHANGED << proc, unit_vars, twin_vars, more_vars, request_vars, pc,
                    chat_ctx, pending, appended, requests, chat_ctx0,
                    stream_text, triggered, received, empties, failed,
                    gemma_vars, openai_vars >>

\* feed_function_result_to_llm: the response ends; the caller resets its
\* state and reads on in the original response
OllamaFeedEnds ==
    /\ proc = "ollama"
    /\ pc = "feeding"
    /\ resume_pending = << >>
    /\ OllamaReset
    /\ UNCHANGED << proc, unit_vars, twin_vars, more_vars, request_vars,
                    chat_ctx, pending, resume_pending, plan, appended,
                    requests, output, history, openai_vars >>

\* feed_function_result_to_llm: the request or the reading of the response
\* raises; its except clause yields its fallback, and the caller resets its
\* state and reads on in the original response
OllamaFeedFails ==
    /\ proc = "ollama"
    /\ pc \in {"feed_request", "feeding"}
    /\ requests' = IF pc = "feed_request" THEN Append(requests, "resume")
                   ELSE requests
    /\ output' = Append(output, FEED_FALLBACK)
    /\ resume_pending' = << >>
    /\ OllamaReset
    /\ UNCHANGED << proc, unit_vars, twin_vars, more_vars, request_vars,
                    chat_ctx, pending, plan, appended, history, openai_vars >>

\* the original response ends: the generator returns
OllamaStreamEnds ==
    /\ proc = "ollama"
    /\ pc = "stream"
    /\ pending = << >>
    /\ pc' = "done"
    /\ UNCHANGED << proc, unit_vars, twin_vars, more_vars, request_vars,
                    chat_ctx, pending, resume_pending, function_buffer,
                    in_function_call, plan, appended, requests, output,
                    history, openai_vars >>

\* the first request or the reading of the original response raises: the
\* except clause yields the fallback response and the generator ends
OllamaBackendFails ==
    /\ proc = "ollama"
    /\ pc \in {"request", "stream"}
    /\ pc' = "done"
    /\ failed' = TRUE
    /\ requests' = IF pc = "request" THEN Append(requests, "initial")
                   ELSE requests
    /\ output' = Append(output, OLLAMA_FALLBACK)
    /\ UNCHANGED << proc, unit_vars, twin_vars, more_vars, request_vars,
                    chat_ctx, pending, resume_pending, appended, chat_ctx0,
                    stream_text, triggered, received, resumed, empties,
                    gemma_vars, openai_vars >>

---------------------------------------------------------------------------
(* process_bedrock_chat *)

\* client.invoke_model_with_response_stream(...)
BedrockRequest ==
    /\ proc = "bedrock"
    /\ pc = "request"
    /\ request_messages' = BedrockMessages(chat_ctx)
    /\ request_system' = BedrockSystem(chat_ctx)
    /\ pc' = "stream"
    /\ requests' = Append(requests, "initial")
    /\ pending' \in BedrockTexts
    /\ stream_text' = pending'
    /\ UNCHANGED << proc, unit_vars, twin_vars, more_vars, chat_ctx,
                    resume_pending, appended, output, chat_ctx0, triggered,
                    received, resumed, empties, failed, gemma_vars,
                    openai_vars >>

\* an event of type content_block_delta with text: the text is yielded
BedrockChunk ==
    /\ proc = "bedrock"
    /\ pc = "stream"
    /\ \E text_content \in Fragments(pending) :
         /\ pending' = Drop(pending, Len(text_content))
         /\ received' = Append(received, text_content)
         /\ output' = Append(output, text_content)
    /\ UNCHANGED << proc, unit_vars, twin_vars, more_vars, request_vars, pc,
                    chat_ctx, resume_pending, appended, requests, chat_ctx0,
                    stream_text, triggered, resumed, empties, failed,
                    gemma_vars, openai_vars >>

\* an event of type message_delta, or a content_block_delta without text
BedrockSkipEvent ==
    /\ proc = "bedrock"
    /\ pc = "stream"
    /\ empties < MaxEmpty
    /\ empties' = empties + 1
    /\ UNCHANGED << proc, unit_vars, twin_vars, more_vars, request_vars, pc,
                    chat_ctx, pending, resume_pending, appended, requests,
                    output, chat_ctx0, stream_text, triggered, received,
                    resumed, failed, gemma_vars, openai_vars >>

\* the event message_stop, or the end of the events
BedrockStreamEnds ==
    /\ proc = "bedrock"
    /\ pc = "stream"
    /\ pending = << >>
    /\ pc' = "done"
    /\ UNCHANGED << proc, unit_vars, twin_vars, more_vars, request_vars,
                    chat_ctx, pending, resume_pending, appended, requests,
                    output, history, gemma_vars, openai_vars >>

\* the request or the reading of the events raises: the except clause
\* yields the fallback response and the generator ends
BedrockBackendFails ==
    /\ proc = "bedrock"
    /\ pc \in {"request", "stream"}
    /\ pc' = "done"
    /\ failed' = TRUE
    /\ requests' = IF pc = "request" THEN Append(requests, "initial")
                   ELSE requests
    /\ output' = Append(output, FALLBACK)
    /\ request_messages' = IF pc = "request" THEN BedrockMessages(chat_ctx)
                          ELSE request_messages
    /\ request_system' = IF pc = "request" THEN BedrockSystem(chat_ctx)
                        ELSE request_system
    /\ UNCHANGED << proc, unit_vars, twin_vars, more_vars, chat_ctx, pending,
                    resume_pending, appended, chat_ctx0, stream_text,
                    triggered, received, resumed, empties, gemma_vars,
                    openai_vars >>

---------------------------------------------------------------------------
(* process_mistral_chat *)

MISTRAL_SYSTEM == << "You are a helpful calling assistant." >>
NO_MESSAGES == << "No messages in chat context" >>

\* the content of the new human message, made from the last item of chat_ctx
HumanContent(last_message) ==
    IF Strip(last_message.content) # << >> THEN last_message.content
    ELSE << "Hello" >>

\* a faulty variant of MessagesToSend that sends the system message in every
\* call
MessagesToSendAlways(items, state) ==
    << Msg("system", MISTRAL_SYSTEM),
       Msg("user", HumanContent(items[Len(items)])) >>

\* messages_to_send: the system message only when the thread has no state
MessagesToSend(items, state) ==
    (IF state = << >> THEN << Msg("system", MISTRAL_SYSTEM) >> ELSE << >>)
    \o << Msg("user", HumanContent(items[Len(items)])) >>

\* graph.astream({"messages": messages_to_send}, ...): the messages join the
\* state of the thread; with no item in chat_ctx a fixed chunk is yielded
MistralRequest ==
    /\ proc = "mistral"
    /\ pc = "request"
    /\ IF chat_ctx = << >>
       THEN /\ pc' = "done"
            /\ output' = Append(output, NO_MESSAGES)
            /\ UNCHANGED << requests, pending, memory, request_messages >>
       ELSE /\ pc' = "stream"
            /\ requests' = Append(requests, "initial")
            /\ pending' \in MistralTexts
            /\ request_messages' = MessagesToSend(chat_ctx, memory)
            /\ memory' = memory \o MessagesToSend(chat_ctx, memory)
            /\ UNCHANGED output
    /\ UNCHANGED request_system
    /\ stream_text' = pending'
    /\ UNCHANGED << proc, unit_vars, twin_vars, in_tool_call_json,
                    bracket_count, chat_ctx, resume_pending, appended,
                    chat_ctx0, triggered, received, resumed, empties, failed,
                    gemma_vars, openai_vars >>

\* content.count('[') - content.count(']')
RECURSIVE BracketCount(_)
BracketCount(content) ==
    IF content = << >> THEN 0
    ELSE (IF HasChar(Head(content), LSQ) THEN 1 ELSE 0)
         - (IF HasChar(Head(content), RSQ) THEN 1 ELSE 0)
         + BracketCount(Tail(content))

\* the other tool call indicators looked for in a chunk
ToolCallIndicator(content) ==
    \/ \E i \in 1..Len(content) :
          content[i] \in {K_DOC, K_CTX, K_BOGUS, K_WEATHER, K_BOGUSA}
    \/ Strip(content) \in { << LB >>, << RB >>, << QT, RSQ >>, << QT, RB >> }

\* an AIMessage chunk with text content and no tool_calls
MistralChunk ==
    /\ proc = "mistral"
    /\ pc = "stream"
    /\ \E content \in Fragments(pending) :
         /\ pending' = Drop(pending, Len(content))
         /\ received' = Append(received, content)
         /\ IF Strip(content) = << >>
            THEN UNCHANGED << accumulated_content, in_tool_call_json,
                              bracket_count, output >>
            ELSE IF Contains(content, LSQ) /\ ~in_tool_call_json
            THEN \* starting a JSON structure
                 /\ accumulated_content' = accumulated_content \o content
                 /\ in_tool_call_json' = TRUE
                 /\ bracket_count' = BracketCount(content)
                 /\ UNCHANGED output
            ELSE IF in_tool_call_json
            THEN \E count \in { bracket_count + BracketCount(content) } :
                   /\ UNCHANGED output
                   /\ IF count <= 0
                      THEN /\ in_tool_call_json' = FALSE
                           /\ bracket_count' = 0
                           /\ accumulated_content' = << >>
                      ELSE /\ bracket_count' = count
                           /\ accumulated_content' = accumulated_content \o content
                           /\ UNCHANGED in_tool_call_json
            ELSE /\ accumulated_content' = accumulated_content \o content
                 /\ UNCHANGED << in_tool_call_json, bracket_count >>
                 /\ IF ToolCallIndicator(content)
                    THEN UNCHANGED output
                    ELSE output' = Append(output, content)
    /\ UNCHANGED << proc, unit_vars, twin_vars, memory, request_vars, pc,
                    chat_ctx, resume_pending, appended, requests, chat_ctx0,
                    stream_text, triggered, resumed, empties, failed,
                    gemma_vars, tool_pending, is_function_call,
                    current_tool_calls, executed >>

\* a chunk that is no AIMessage, has no text or carries tool_calls
MistralSkipChunk ==
    /\ proc = "mistral"
    /\ pc = "stream"
    /\ empties < MaxEmpty
    /\ empties' = empties + 1
    /\ UNCHANGED << proc, unit_vars, twin_vars, more_vars, request_vars, pc,
                    chat_ctx, pending, resume_pending, appended, requests,
                    output, chat_ctx0, stream_text, triggered, received,
                    resumed, failed, gemma_vars, openai_vars >>

\* the graph has run to its end: the answer is in the state of the thread
MistralStreamEnds ==
    /\ proc = "mistral"
    /\ pc = "stream"
    /\ pending = << >>
    /\ pc' = "done"
    /\ memory' = Append(memory, Msg("assistant", stream_text))
    /\ UNCHANGED << proc, unit_vars, twin_vars, in_tool_call_json,
                    bracket_count, request_vars, chat_ctx, pending,
                    resume_pending, appended, requests, output, history,
                    gemma_vars, openai_vars >>

\* the model call inside the graph raises: graph.astream raises, nothing
\* catches it, and the exception leaves the generator
MistralBackendFails ==
    /\ proc = "mistral"
    /\ pc \in {"request", "stream"}
    /\ chat_ctx # << >>
    /\ pc' = "raised"
    /\ failed' = TRUE
    /\ requests' = IF pc = "request" THEN Append(requests, "initial")
                   ELSE requests
    /\ request_messages' = IF pc = "request" THEN MessagesToSend(chat_ctx, memory)
                          ELSE request_messages
    /\ UNCHANGED request_system
    /\ memory' = IF pc = "request" THEN memory \o MessagesToSend(chat_ctx, memory)
                 ELSE memory
    /\ UNCHANGED << proc, unit_vars, twin_vars, in_tool_call_json,
                    bracket_count, chat_ctx, pending, resume_pending,
                    appended, output, chat_ctx0, stream_text, triggered,
                    received, resumed, empties, gemma_vars, openai_vars >>

---------------------------------------------------------------------------
(* The caller abandons the turn *)

\* the caller closes the generator of process_gemma_chat or of
\* process_openai_chat while it waits for the next chunk of the original
\* stream: the generator ends there, no except clause runs
Abandon ==
    /\ proc \in {"gemma", "openai"}
    /\ pc = "stream"
    /\ pc' = "abandoned"
    /\ UNCHANGED << proc, unit_vars, twin_vars, more_vars, request_vars,
                    chat_ctx, pending, resume_pending, appended, requests,
                    output, history, gemma_vars, openai_vars >>

Next ==
    \/ GemmaRequest
    \/ GemmaChunk
    \/ GemmaEmptyChunk
    \/ GemmaCapabilityReturns
    \/ GemmaResumeRequest
    \/ GemmaResumedChunk
    \/ GemmaStreamEnds
    \/ GemmaBackendFails
    \/ OpenAIRequest
    \/ OpenAIChunk
    \/ OpenAIToolCallDelta
    \/ OpenAIFinishToolCalls
    \/ OpenAISecondRequest
    \/ OpenAISecondChunk
    \/ OpenAIEmptyChunk
    \/ OpenAIStreamEnds
    \/ OpenAIBackendFails
    \/ OllamaRequest
    \/ OllamaChunk
    \/ OllamaEmptyContent
    \/ OllamaSkipLine
    \/ OllamaCapabilityReturns
    \/ OllamaFeedRequest
    \/ OllamaFeedChunk
    \/ OllamaFeedEnds
    \/ OllamaFeedFails
    \/ OllamaStreamEnds
    \/ OllamaBackendFails
    \/ BedrockRequest
    \/ BedrockChunk
    \/ BedrockSkipEvent
    \/ BedrockStreamEnds
    \/ BedrockBackendFails
    \/ MistralRequest
    \/ MistralChunk
    \/ MistralSkipChunk
    \/ MistralStreamEnds
    \/ MistralBackendFails
    \/ Abandon

Spec == Init /\ [][Next]_vars

---------------------------------------------------------------------------
(* process_gemma_chat called twice: the second call is made with the       *)
(* history the first call was made with and is given the inputs the first  *)
(* was given                                                               *)

\* the first run is over: its outcome is kept and the second call is made
SecondCall ==
    /\ run = 1
    /\ pc = "done"
    /\ run' = 2
    /\ first' = [output |-> output, chat_ctx |-> chat_ctx, state |-> memory]
    /\ chat_ctx' = chat_ctx0
    /\ pc' = "request"
    /\ in_tool_call_json' = FALSE
    /\ bracket_count' = 0
    /\ memory' = << >>
    /\ request_messages' = << >>
    /\ request_system' = << >>
    /\ tool_pending' = << >>
    /\ accumulated_content' = << >>
    /\ is_function_call' = FALSE
    /\ current_tool_calls' = << >>
    /\ executed' = << >>
    /\ pending' = << >>
    /\ resume_pending' = << >>
    /\ function_buffer' = << >>
    /\ in_function_call' = FALSE
    /\ plan' = NoPlan
    /\ appended' = << >>
    /\ requests' = << >>
    /\ output' = << >>
    /\ stream_text' = << >>
    /\ triggered' = FALSE
    /\ received' = << >>
    /\ resumed' = << >>
    /\ calls' = << >>
    /\ invoked' = << >>
    /\ empties' = 0
    /\ failed' = FALSE
    /\ UNCHANGED << proc, unit_vars, chat_ctx0, trace >>

InitTwice ==
    /\ run = 1
    /\ trace = << >>
    /\ first = NoRun
    /\ proc = "gemma"
    /\ chat_ctx \in ChatContexts
    /\ EntryState

NextTwice ==
    \/ GemmaRequest
    \/ GemmaChunk
    \/ GemmaEmptyChunk
    \/ GemmaCapabilityReturns
    \/ GemmaResumeRequest
    \/ GemmaResumedChunk
    \/ GemmaStreamEnds
    \/ GemmaBackendFails
    \/ SecondCall

SpecTwice == InitTwice /\ [][NextTwice]_vars

---------------------------------------------------------------------------
(* The first request, for the histories of SerialContexts *)

InitSerial ==
    /\ Once
    /\ proc \in {"gemma", "openai", "bedrock"}
    /\ chat_ctx \in SerialContexts
    /\ EntryState

NextSerial ==
    \/ GemmaRequest
    \/ GemmaBackendFails
    \/ OpenAIRequest
    \/ OpenAIBackendFails
    \/ BedrockRequest
    \/ BedrockBackendFails

SpecSerial == InitSerial /\ [][NextSerial]_vars

---------------------------------------------------------------------------
(* process_langgraph_chat, called twice for one thread_id; here `memory`  *)
(* is what the saver of the chatbot of the latest call holds for the      *)
(* thread, and `first` keeps the graph state the first call ended with    *)

LANGGRAPH_FALLBACK ==
    << "I'm experiencing technical difficulties. Please try again." >>
COMPLETED == << "I've completed the task." >>

\* self.memory = InMemorySaver(): the saver of a new chatbot holds no thread
InMemorySaver == << >>

\* the text the f-string adds to system_prompt
ENHANCED_TAIL == << "You have to guide user to resolve their issues." >>

\* a content that is a str, not a list of blocks
StrContent(text) == << [type |-> "str", text |-> text] >>

\* message_content of a list content: a text block for each string that is
\* not blank, an image block for each image of the last item
RECURSIVE MessageContent(_, _)
MessageContent(parts, is_last) ==
    IF parts = << >> THEN << >>
    ELSE (IF IsStrPart(Head(parts))
          THEN (IF Strip(Head(parts).text) # << >>
                THEN << TextBlock(Head(parts).text) >> ELSE << >>)
          ELSE (IF is_last
                THEN << ImageBlock("image_url", Head(parts).image) >>
                ELSE << >>))
         \o MessageContent(Tail(parts), is_last)

\* content of a chat item
LangGraphContent(msg, is_last) ==
    IF IsList(msg)
    THEN (IF MessageContent(msg.parts, is_last) # << >>
          THEN MessageContent(msg.parts, is_last) ELSE StrContent(<< >>))
    ELSE StrContent(msg.content)

\* the messages made of chat_ctx.items from idx on: a system item gives a
\* message only if the thread has no messages
RECURSIVE ConvertItems(_, _, _)
ConvertItems(items, idx, existing_messages) ==
    IF idx > Len(items) THEN << >>
    ELSE (IF items[idx].role = "system" /\ existing_messages # << >>
          THEN << >>
          ELSE << [role |-> items[idx].role,
                   content |-> LangGraphContent(items[idx],
                                                idx = Len(items))] >>)
         \o ConvertItems(items, idx + 1, existing_messages)

\* messages of initial_state
LangGraphMessages(items, system_prompt, existing_messages) ==
    (IF system_prompt # << >>
     THEN << [role |-> "system",
              content |-> StrContent(system_prompt \o ENHANCED_TAIL)] >>
     ELSE << >>)
    \o ConvertItems(items, 1, existing_messages)

SystemPrompts == { << >>, << "PROMPT" >> }

\* the answers of the model
LangGraphTexts == { << >>, << CH, SP, CH >> }

\* the histories process_langgraph_chat is called with
LangGraphContexts ==
    { << Msg("user", << "U1" >>) >>,
      << Msg("system", << "S1" >>), Msg("user", << "U1" >>) >>,
      << ListMsg("system", << StrPart(<< "S2" >>), StrPart(<< SP >>) >>),
         ListMsg("user", << ImagePart("image/png", "AAAA"),
                            StrPart(<< "U2" >>) >>) >>,
      << ListMsg("user", << ImagePart("image/png", "AAAA"),
                            StrPart(<< "U2" >>) >>),
         Msg("assistant", << "A1" >>),
         ListMsg("user", << ImagePart("image/jpeg", "BBBB") >>) >>,
      << Msg("user", << "U1" >>), Msg("assistant", << "A1" >>),
         ListMsg("user", << StrPart(<< SP >>) >>) >> }

\* what process_langgraph_chat leaves alone
other_vars == << proc, unit_vars, pending, resume_pending, appended, triggered,
                 received, resumed, empties, in_tool_call_json,
                 bracket_count, request_system, trace, gemma_vars,
                 openai_vars >>

\* chatbot = LangGraphChatbot(...) down to initial_state: the state of the
\* thread is read from the saver of the chatbot just made
LangGraphCall ==
    /\ proc = "langgraph"
    /\ pc = "request"
    /\ \E system_prompt \in SystemPrompts, saver \in { InMemorySaver } :
          /\ memory' = saver
          /\ request_messages' =
                LangGraphMessages(chat_ctx, system_prompt, saver)
    /\ requests' = Append(requests, "initial")
    /\ pc' = "invoke"
    /\ UNCHANGED << other_vars, run, first, chat_ctx, chat_ctx0, output,
                    stream_text, failed >>

\* self.graph.ainvoke(state, config): add_messages appends the messages of
\* initial_state and the response of the model to those of the thread;
\* process_streaming yields the content of the last message
LangGraphAnswers ==
    /\ proc = "langgraph"
    /\ pc = "invoke"
    /\ \E text \in LangGraphTexts :
          /\ stream_text' = text
          /\ memory' = memory \o request_messages
                          \o << [role |-> "assistant",
                                 content |-> StrContent(text)] >>
          /\ output' = IF text # << >> THEN << text >> ELSE << COMPLETED >>
    /\ pc' = "done"
    /\ UNCHANGED << other_vars, run, first, chat_ctx, chat_ctx0,
                    request_messages, requests, failed >>

\* the model fails in chat_node, which answers with error_msg, or the graph
\* raises and process_streaming yields the same text
LangGraphFails ==
    /\ proc = "langgraph"
    /\ pc = "invoke"
    /\ \E in_chat_node \in BOOLEAN :
          memory' = IF in_chat_node
                    THEN memory \o request_messages
                            \o << [role |-> "assistant",
                                   content |-> StrContent(LANGGRAPH_FALLBACK)] >>
                    ELSE memory
    /\ output' = << LANGGRAPH_FALLBACK >>
    /\ failed' = TRUE
    /\ pc' = "done"
    /\ UNCHANGED << other_vars, run, first, chat_ctx, chat_ctx0,
                    request_messages, requests, stream_text >>

\* the next call for the thread: the chatbot of the first call is left
\* behind with its saver
LangGraphNextCall ==
    /\ proc = "langgraph"
    /\ run = 1
    /\ pc = "done"
    /\ run' = 2
    /\ first' = [output |-> output, chat_ctx |-> chat_ctx, state |-> memory]
    /\ chat_ctx' \in LangGraphContexts
    /\ chat_ctx0' = chat_ctx'
    /\ pc' = "request"
    /\ request_messages' = << >>
    /\ requests' = << >>
    /\ output' = << >>
    /\ stream_text' = << >>
    /\ failed' = FALSE
    /\ UNCHANGED << other_vars, memory >>

InitLangGraph ==
    /\ run = 1
    /\ trace = << >>
    /\ first = NoRun
    /\ proc = "langgraph"
    /\ chat_ctx \in LangGraphContexts
    /\ EntryState

NextLangGraph ==
    \/ LangGraphCall
    \/ LangGraphAnswers
    \/ LangGraphFails
    \/ LangGraphNextCall

SpecLangGraph == InitLangGraph /\ [][NextLangGraph]_vars

---------------------------------------------------------------------------
(* parse_mistral_function_calls called on its own *)

\* call objects: their text and the value they stand for
CallObject(text, name, arguments) ==
    [text |-> text,
     value |-> JObj(<< [k |-> "name", v |-> JStr(<< name >>)],
                       [k |-> "arguments", v |-> JObj(arguments)] >>)]

CallObjects ==
    { CallObject(<< LB, K_WEATHER, LB, K_CITY, PARIS, RB, RB >>, "get_weather",
                 << [k |-> "city", v |-> JStr(<< "Paris" >>)] >>),
      CallObject(<< LB, K_WEATHER, LB, K_CITY, PARIS, COMMA, K_UNIT, FAHR,
                    RB, RB >>, "get_weather",
                 << [k |-> "city", v |-> JStr(<< "Paris" >>)],
                    [k |-> "unit", v |-> JStr(<< "fahrenheit" >>)] >>),
      CallObject(<< LB, K_BOGUSA, LB, RB, RB >>, "bogus", EmptyMap),
      \* a string with a bracket: {"city": "]"}
      CallObject(<< LB, K_WEATHER, LB, K_CITY, QT, RSQ, QT, RB, RB >>,
                 "get_weather", << [k |-> "city", v |-> JStr(<< RSQ >>)] >>),
      \* a nested array: {"city": ["Paris"]}
      CallObject(<< LB, K_WEATHER, LB, K_CITY, LSQ, PARIS, RSQ, RB, RB >>,
                 "get_weather",
                 << [k |-> "city", v |-> JArr(<< JStr(<< "Paris" >>) >>)] >>) }

MaxCalls == 2

\* the arrays of up to MaxCalls call objects
CallArrays == UNION { [1..n -> CallObjects] : n \in 1..MaxCalls }

\* the text of a JSON array of call objects
RECURSIVE ArrayText(_, _)
ArrayText(array, i) ==
    IF i > Len(array) THEN << RSQ >>
    ELSE (IF i = 1 THEN << LSQ >> ELSE << COMMA >>)
         \o array[i].text \o ArrayText(array, i + 1)

ArrayValues(array) == [i \in 1..Len(array) |-> array[i].value]

\* '[TOOL_CALLS]', blanks or none, and a well-formed array of call objects
Payload(blanks, array) == << TOOL_, CALLS >> \o blanks \o ArrayText(array, 1)

Payloads ==
    { [content |-> Payload(blanks, array), calls |-> ArrayValues(array)] :
        blanks \in { << >>, << SP >> }, array \in CallArrays }

\* texts without such a payload
NoPayloadTexts ==
    { << >>, << CH, SP, CH >>, << TOOL_, CALLS >>, << TOOL_, CALLS, CH >>,
      << LSQ, LB, K_WEATHER, LB, RB, RB, RSQ >>,
      << TOOL_, CALLS, LB, K_WEATHER, LB, RB, RB >>,
      << TOOL_, CALLS, LSQ, LB, K_WEATHER, LB, RB, RB >>,
      << TOOL_, CALLS, LSQ, LB, RSQ >>,
      << TOOL_, CALLS, LSQ, CH, RSQ >>,
      << CALLS, TOOL_, LSQ, RSQ >> }

ParseTexts == { p.content : p \in Payloads } \cup NoPayloadTexts

\* what the state of the processors is left as
idle_vars == << proc, chat_ctx, pending, resume_pending, appended, requests,
               output, history, gemma_vars, openai_vars, more_vars,
               request_vars, twin_vars, agent_vars, node_vars, tools_vars >>

\* parse_mistral_function_calls(content) is called
ParseCall ==
    /\ proc = "parse"
    /\ pc = "request"
    /\ parse_content' \in ParseTexts
    /\ pc' = "parsing"
    /\ UNCHANGED << idle_vars, parse_result >>

\* it returns
ParseReturns ==
    /\ proc = "parse"
    /\ pc = "parsing"
    /\ parse_result' = parse_mistral_function_calls(parse_content)
    /\ pc' = "done"
    /\ UNCHANGED << idle_vars, parse_content >>

InitParse ==
    /\ Once
    /\ proc = "parse"
    /\ chat_ctx = << >>
    /\ EntryState

NextParse ==
    \/ ParseCall
    \/ ParseReturns

SpecParse == InitParse /\ [][NextParse]_vars

---------------------------------------------------------------------------
(* Two turns of process_gemma_chat on one chat_ctx: after the first turn   *)
(* the caller adds the answer, if it keeps one, and the next user message  *)

\* what the caller adds to chat_ctx between two turns
TurnItems ==
    { << Msg("user", << "U1" >>) >>,
      << Msg("assistant", << "A1" >>), Msg("user", << "U1" >>) >> }

\* the first turn is over and process_gemma_chat is called again
GemmaNextTurn ==
    /\ proc = "gemma"
    /\ run = 3
    /\ first = NoRun
    /\ pc = "done"
    /\ first' = [output |-> << >>, chat_ctx |-> chat_ctx, state |-> << >>]
    /\ chat_ctx' \in { chat_ctx \o items : items \in TurnItems }
    /\ chat_ctx0' = chat_ctx'
    /\ pc' = "request"
    /\ request_messages' = << >>
    /\ pending' = << >>
    /\ resume_pending' = << >>
    /\ function_buffer' = << >>
    /\ in_function_call' = FALSE
    /\ plan' = NoPlan
    /\ appended' = << >>
    /\ requests' = << >>
    /\ output' = << >>
    /\ stream_text' = << >>
    /\ triggered' = FALSE
    /\ received' = << >>
    /\ resumed' = << >>
    /\ calls' = << >>
    /\ invoked' = << >>
    /\ empties' = 0
    /\ failed' = FALSE
    /\ UNCHANGED << proc, unit_vars, run, trace, more_vars,
                    request_system, openai_vars >>

InitTurns ==
    /\ run = 3
    /\ trace = << >>
    /\ first = NoRun
    /\ proc = "gemma"
    /\ chat_ctx \in ChatContexts
    /\ EntryState

NextTurns ==
    \/ GemmaRequest
    \/ GemmaChunk
    \/ GemmaEmptyChunk
    \/ GemmaCapabilityReturns
    \/ GemmaResumeRequest
    \/ GemmaResumedChunk
    \/ GemmaStreamEnds
    \/ GemmaBackendFails
    \/ GemmaNextTurn

SpecTurns == InitTurns /\ [][NextTurns]_vars

---------------------------------------------------------------------------
(* process_mistral_chat called again and again with one thread_id: the     *)
(* module-level checkpointer keeps the state of the thread (`memory`), and *)
(* here `trace` holds one record for each earlier call                     *)

\* the number of calls made on the thread
MaxThreadCalls == 3

\* what is kept of a call that is over: the messages it passed to the graph
\* and the state of the thread it left
CallRecord == [passed |-> request_messages, state |-> memory]

\* a call is over, the caller has added to chat_ctx and calls again with the
\* same thread_id
MistralNextCall ==
    /\ proc = "mistral"
    /\ pc \in {"done", "raised"}
    /\ Len(trace) + 1 < MaxThreadCalls
    /\ trace' = Append(trace, CallRecord)
    /\ chat_ctx' \in { chat_ctx \o items : items \in TurnItems }
    /\ chat_ctx0' = chat_ctx'
    /\ pc' = "request"
    /\ in_tool_call_json' = FALSE
    /\ bracket_count' = 0
    /\ accumulated_content' = << >>
    /\ request_messages' = << >>
    /\ pending' = << >>
    /\ requests' = << >>
    /\ output' = << >>
    /\ stream_text' = << >>
    /\ received' = << >>
    /\ empties' = 0
    /\ failed' = FALSE
    /\ UNCHANGED << proc, unit_vars, run, first, memory, request_system,
                    resume_pending, appended, triggered, resumed, gemma_vars,
                    tool_pending, is_function_call, current_tool_calls,
                    executed >>

InitThread ==
    /\ Once
    /\ proc = "mistral"
    /\ chat_ctx \in { << >>, << Msg("user", << CH >>) >> }
    /\ EntryState

NextThread ==
    \/ MistralRequest
    \/ MistralChunk
    \/ MistralSkipChunk
    \/ MistralStreamEnds
    \/ MistralBackendFails
    \/ MistralNextCall

SpecThread == InitThread /\ [][NextThread]_vars

---------------------------------------------------------------------------
(* The agents that buffer video frames: vision_agent.py, example.py,       *)
(* customImage.py and vision_agent_fixed.py                                *)

Agents == {"vision_agent.py", "example.py", "customImage.py",
           "vision_agent_fixed.py"}

\* the VideoStreams, the frames and the user turns of a session
MaxStreams == 3
MaxFrames == 3
MaxTurns == 3

\* the state of the processors and of the functions, none of which runs
chat_vars == << proc, pc, chat_ctx, pending, resume_pending, appended,
                requests, output, history, gemma_vars, openai_vars,
                more_vars, request_vars, twin_vars, parse_vars, node_vars,
                tools_vars >>

\* what the call on self._video_stream does to the stream: close() closes
\* it; aclose() in example.py makes a coroutine that nothing awaits, so the
\* stream stays open
AfterClose(file, status) ==
    IF file = "example.py" THEN status ELSE "closed"

\* a faulty variant of OnUserTurnCompleted that leaves _latest_frame as it is
OnUserTurnCompletedKeeps ==
    /\ agent \in Agents
    /\ Len(attached) < MaxTurns
    /\ attached' = Append(attached, latest_frame)
    /\ UNCHANGED << chat_vars, agent, entered, streams, video_stream,
                    captured, latest_frame >>

\* _create_video_stream(track)
CreateVideoStream ==
    /\ streams' = Append(IF video_stream # 0
                         THEN [streams EXCEPT ![video_stream] =
                                  AfterClose(agent, streams[video_stream])]
                         ELSE streams,
                         "open")
    /\ video_stream' = Len(streams) + 1

\* on_enter: a stream for the video track that is there already, if any,
\* and the handler of track_subscribed
OnEnter ==
    /\ agent \in Agents
    /\ ~entered
    /\ entered' = TRUE
    /\ \E has_video \in BOOLEAN :
         IF has_video THEN CreateVideoStream
         ELSE UNCHANGED << streams, video_stream >>
    /\ UNCHANGED << chat_vars, agent, captured, latest_frame, attached >>

\* on_track_subscribed: a stream for a video track
TrackSubscribed ==
    /\ agent \in Agents
    /\ entered
    /\ Len(streams) < MaxStreams
    /\ \E kind \in {"KIND_VIDEO", "KIND_AUDIO"} :
         IF kind = "KIND_VIDEO" THEN CreateVideoStream
         ELSE UNCHANGED << streams, video_stream >>
    /\ UNCHANGED << chat_vars, agent, entered, captured, latest_frame,
                    attached >>

\* read_stream: a stream that is open delivers a frame, which is stored
ReadStream ==
    /\ agent \in Agents
    /\ captured < MaxFrames
    /\ \E i \in 1..Len(streams) : streams[i] = "open"
    /\ captured' = captured + 1
    /\ latest_frame' = captured + 1
    /\ UNCHANGED << chat_vars, agent, entered, streams, video_stream,
                    attached >>

\* on_user_turn_completed: the latest frame, if any, goes into the new
\* message; example.py leaves _latest_frame as it is
OnUserTurnCompleted ==
    /\ agent \in Agents
    /\ Len(attached) < MaxTurns
    /\ attached' = Append(attached, latest_frame)
    /\ latest_frame' = IF agent = "example.py" THEN latest_frame ELSE 0
    /\ UNCHANGED << chat_vars, agent, entered, streams, video_stream,
                    captured >>

InitAgent ==
    /\ Once
    /\ proc = "agent"
    /\ chat_ctx = << >>
    /\ ProcessorEntry
    /\ NoParse
    /\ NoToolNode
    /\ NoTools
    /\ agent \in Agents
    /\ entered = FALSE
    /\ streams = << >>
    /\ video_stream = 0
    /\ captured = 0
    /\ latest_frame = 0
    /\ attached = << >>

NextAgent ==
    \/ OnEnter
    \/ TrackSubscribed
    \/ ReadStream
    \/ OnUserTurnCompleted

SpecAgent == InitAgent /\ [][NextAgent]_vars

---------------------------------------------------------------------------
(* tool_node of LangGraphChatbot, called with an AI message that has tool  *)
(* calls                                                                   *)

\* self.tools = [get_context]
TOOLS == {"get_context"}

\* the tool calls an AI message may have
ToolCalls == [name : {"get_context", "bogus"}, id : {"call_a", "call_b"}]

\* the number of tool calls of one message
MaxToolCalls == 2

ToolCallLists ==
    UNION { [1..n -> ToolCalls] : n \in 0..MaxToolCalls }

\* how the execution of a tool ends: ainvoke returns, or ainvoke raises and
\* so does invoke after it
ToolOutcomes == {"returns", "raises"}

TOOL_TEXT == << "No relevant context found in the knowledge base." >>
TOOL_ERROR == << "StructuredTool does not support sync invocation." >>

\* str(tool_result) for a call and the outcome of its execution
ToolResult(tool_call, outcome) ==
    IF tool_call.name \notin TOOLS
    THEN << "Tool ", tool_call.name, " not found" >>
    ELSE IF outcome = "raises"
    THEN << "Error executing ", tool_call.name, ": " >> \o TOOL_ERROR
    ELSE TOOL_TEXT

ToolMessage(tool_content, tool_call_id) ==
    [content |-> tool_content, tool_call_id |-> tool_call_id]

\* what is left unchanged by tool_node
node_idle == << proc, chat_ctx, pending, resume_pending, appended, requests,
                output, history, gemma_vars, openai_vars, more_vars,
                request_vars, twin_vars, parse_vars, agent_vars,
                tools_vars >>

\* the graph enters tool_node with the AI message as last message
ToolNodeCall ==
    /\ proc = "tool_node"
    /\ pc = "request"
    /\ ai_tool_calls' \in ToolCallLists
    /\ pc' = "tools"
    /\ UNCHANGED << node_idle, tool_results, tool_raised >>

\* a faulty variant of ToolNodeStep that makes no message for a tool it
\* does not find
ToolNodeStepSkips ==
    /\ proc = "tool_node"
    /\ pc = "tools"
    /\ Len(tool_raised) < Len(ai_tool_calls)
    /\ \E tool_call \in { ai_tool_calls[Len(tool_raised) + 1] } :
       \E outcome \in ToolOutcomes :
         /\ tool_results' =
               IF tool_call.name \in TOOLS
               THEN Append(tool_results,
                           ToolMessage(ToolResult(tool_call, outcome),
                                       tool_call.id))
               ELSE tool_results
         /\ tool_raised' = Append(tool_raised,
                                  tool_call.name \in TOOLS
                                  /\ outcome = "raises")
    /\ UNCHANGED << node_idle, pc, ai_tool_calls >>

\* one turn of the loop over last_message.tool_calls
ToolNodeStep ==
    /\ proc = "tool_node"
    /\ pc = "tools"
    /\ Len(tool_raised) < Len(ai_tool_calls)
    /\ \E tool_call \in { ai_tool_calls[Len(tool_raised) + 1] } :
       \E outcome \in ToolOutcomes :
         /\ tool_results' =
               Append(tool_results,
                      ToolMessage(ToolResult(tool_call, outcome),
                                  tool_call.id))
         /\ tool_raised' = Append(tool_raised,
                                  tool_call.name \in TOOLS
                                  /\ outcome = "raises")
    /\ UNCHANGED << node_idle, pc, ai_tool_calls >>

\* return {"messages": tool_results}: the edge from tools leads to chat
ToolNodeReturns ==
    /\ proc = "tool_node"
    /\ pc = "tools"
    /\ Len(tool_raised) = Len(ai_tool_calls)
    /\ pc' = "chat"
    /\ UNCHANGED << node_idle, node_vars >>

InitToolNode ==
    /\ Once
    /\ proc = "tool_node"
    /\ chat_ctx = << >>
    /\ EntryState

NextToolNode ==
    \/ ToolNodeCall
    \/ ToolNodeStep
    \/ ToolNodeReturns

SpecToolNode == InitToolNode /\ [][NextToolNode]_vars

---------------------------------------------------------------------------
(* The functions of tools.py: normalize_collection_name,                   *)
(* perform_similarity_search and get_context_qdrant.  A name is a sequence *)
(* of characters                                                           *)

\* the characters of project names: letters of both cases, a digit, the
\* underscore, a blank, a hyphen and a letter that is not ASCII (written
\* "e-acute")
NameChars == {"a", "B", "7", "_", " ", "-", "e-acute"}

\* the length of a project name
MaxName == 3

Names == UNION { [1..n -> NameChars] : n \in 0..MaxName }

\* c.lower()
LowerChar(c) == IF c = "B" THEN "b" ELSE c

\* project_name.lower()
NameLower(name) == [i \in 1..Len(name) |-> LowerChar(name[i])]

\* c matches [a-zA-Z0-9]
IsAlnum(c) == c \in {"a", "b", "B", "7"}

\* re.sub(r'[^a-zA-Z0-9]+', '_', name)
RECURSIVE SkipOthers(_)
SkipOthers(name) ==
    IF name = << >> \/ IsAlnum(Head(name)) THEN name
    ELSE SkipOthers(Tail(name))

RECURSIVE SubOthers(_)
SubOthers(name) ==
    IF name = << >> THEN << >>
    ELSE IF IsAlnum(Head(name)) THEN << Head(name) >> \o SubOthers(Tail(name))
    ELSE << "_" >> \o SubOthers(SkipOthers(name))

\* re.sub(r'_+', '_', name)
RECURSIVE SubUnderscores(_)
SubUnderscores(name) ==
    IF name = << >> THEN << >>
    ELSE IF Head(name) = "_" /\ Len(name) > 1 /\ name[2] = "_"
    THEN SubUnderscores(Tail(name))
    ELSE << Head(name) >> \o SubUnderscores(Tail(name))

\* name.strip('_')
RECURSIVE StripUnderscores(_)
StripUnderscores(name) ==
    IF name = << >> THEN << >>
    ELSE IF Head(name) = "_" THEN StripUnderscores(Tail(name))
    ELSE IF name[Len(name)] = "_"
    THEN StripUnderscores(SubSeq(name, 1, Len(name) - 1))
    ELSE name

\* a faulty variant of normalize_collection_name that does not strip
normalize_collection_name_unstripped(name) ==
    SubUnderscores(SubOthers(NameLower(name)))

normalize_collection_name(name) ==
    StripUnderscores(SubUnderscores(SubOthers(NameLower(name))))

NO_CONTEXT == << "No relevant context found in the knowledge base." >>
NO_RELEVANT_CONTEXT ==
    << "No highly relevant context found in the knowledge base." >>

\* what the vector store may answer with status 200: no result, a result
\* with a high score, one with a low score, and a result that is no object
SearchResults ==
    { << >>,
      << [score |-> 9, description |-> << "doc" >>] >>,
      << [score |-> 0, description |-> << "doc" >>] >>,
      << [text |-> << "doc" >>] >> }

\* the text get_context_qdrant makes of search results that are not empty
FormatContext(results) ==
    IF \E i \in 1..Len(results) : results[i] \notin
          [score : 0..10, description : { << "doc" >> }]
    THEN << "Error retrieving context: ",
            "'str' object has no attribute 'get'" >>
    ELSE IF \A i \in 1..Len(results) : results[i].score <= 1
    THEN NO_RELEVANT_CONTEXT
    ELSE << "Context 1 (relevance: 0.90):\n", "documentation:\n", "doc", "\n" >>

\* what is left unchanged by the functions of tools.py
tools_idle == << proc, chat_ctx, pending, resume_pending, appended, requests,
                 output, history, gemma_vars, openai_vars, more_vars,
                 request_vars, twin_vars, parse_vars, agent_vars,
                 node_vars, entry, project_name >>

\* normalize_collection_name(project_name)
NormalizeCall ==
    /\ entry = "normalize_collection_name"
    /\ pc = "request"
    /\ normalized' = normalize_collection_name(project_name)
    /\ pc' = "normalized"
    /\ UNCHANGED << tools_idle, collection_name, contacted, search_results,
                    formatted_context, renormalized >>

\* normalize_collection_name called with its own result
NormalizeAgain ==
    /\ entry = "normalize_collection_name"
    /\ pc = "normalized"
    /\ renormalized' = normalize_collection_name(normalized)
    /\ pc' = "done"
    /\ UNCHANGED << tools_idle, collection_name, contacted, search_results,
                    formatted_context, normalized >>

\* a faulty variant of SearchCall that goes on without a collection
SearchCallAnyway ==
    /\ entry \in {"perform_similarity_search", "get_context_qdrant"}
    /\ pc = "request"
    /\ collection_name' =
          IF collection_name = None /\ project_name \notin {None, << >>}
          THEN normalize_collection_name(project_name)
          ELSE collection_name
    /\ pc' = "embedding"
    /\ UNCHANGED << tools_idle, contacted, search_results,
                    formatted_context, normalized, renormalized >>

\* perform_similarity_search up to its first await: the collection is
\* settled, or [] is returned when there is neither collection nor project
SearchCall ==
    /\ entry \in {"perform_similarity_search", "get_context_qdrant"}
    /\ pc = "request"
    /\ IF collection_name = None /\ project_name \in {None, << >>}
       THEN /\ search_results' = << >>
            /\ pc' = "searched"
            /\ UNCHANGED collection_name
       ELSE /\ collection_name' =
                  IF collection_name = None
                  THEN normalize_collection_name(project_name)
                  ELSE collection_name
            /\ pc' = "embedding"
            /\ UNCHANGED search_results
    /\ UNCHANGED << tools_idle, contacted, formatted_context, normalized,
                    renormalized >>

\* get_ollama_embedding: the request to the embedding service; a status
\* other than 200 and an exception give [], and so may status 200
EmbeddingReturns ==
    /\ entry \in {"perform_similarity_search", "get_context_qdrant"}
    /\ pc = "embedding"
    /\ contacted' = contacted \cup {"embedding"}
    /\ \E has_embedding \in BOOLEAN :
         IF has_embedding
         THEN pc' = "qdrant" /\ UNCHANGED search_results
         ELSE pc' = "searched" /\ search_results' = << >>
    /\ UNCHANGED << tools_idle, collection_name, formatted_context,
                    normalized, renormalized >>

\* the search request to the vector store: status 200 with results, another
\* status, or an exception, caught
QdrantReturns ==
    /\ entry \in {"perform_similarity_search", "get_context_qdrant"}
    /\ pc = "qdrant"
    /\ contacted' = contacted \cup {"qdrant"}
    /\ \E outcome \in {"200", "500", "raises"} :
         IF outcome = "200"
         THEN search_results' \in SearchResults
         ELSE search_results' = << >>
    /\ pc' = "searched"
    /\ UNCHANGED << tools_idle, collection_name, formatted_context,
                    normalized, renormalized >>

\* perform_similarity_search has returned; get_context_qdrant makes its
\* text of the results
SearchReturns ==
    /\ entry \in {"perform_similarity_search", "get_context_qdrant"}
    /\ pc = "searched"
    /\ pc' = "done"
    /\ formatted_context' =
          IF entry = "perform_similarity_search" THEN formatted_context
          ELSE IF search_results = << >> THEN NO_CONTEXT
          ELSE FormatContext(search_results)
    /\ UNCHANGED << tools_idle, collection_name, contacted, search_results,
                    normalized, renormalized >>

InitTools ==
    /\ Once
    /\ proc = "tools"
    /\ chat_ctx = << >>
    /\ ProcessorEntry
    /\ NoParse
    /\ NoAgent
    /\ NoToolNode
    /\ entry \in {"normalize_collection_name", "perform_similarity_search",
                  "get_context_qdrant"}
    /\ project_name \in Names \cup
          (IF entry = "normalize_collection_name" THEN { } ELSE {None})
    /\ collection_name \in
          IF entry = "perform_similarity_search"
          THEN {None, << "d", "o", "c", "s" >>}
          ELSE {None}
    /\ contacted = { }
    /\ search_results = NotReturned
    /\ formatted_context = None
    /\ normalized = None
    /\ renormalized = None

NextTools ==
    \/ NormalizeCall
    \/ NormalizeAgain
    \/ SearchCall
    \/ EmbeddingReturns
    \/ QdrantReturns
    \/ SearchReturns

SpecTools == InitTools /\ [][NextTools]_vars

---------------------------------------------------------------------------
(* Properties *)

\* the text a sequence of fragments adds up to
RECURSIVE Concat(_)
Concat(fragments) ==
    IF fragments = << >> THEN << >>
    ELSE Head(fragments) \o Concat(Tail(fragments))

\* a fragment with a '{' or a '}' in it
HasBrace(f) == \E i \in 1..Len(f) : f[i] \in {"{", "}"}

\* the generator has returned and the backend never failed
Finished == pc = "done" /\ ~failed

\* C1: as long as no fragment of the stream has held the trigger ('{' for
\* the Gemma processor; "[TOOL_CALLS]" for the OpenAI processor, with no
\* native tool_calls delta either), what has been yielded is exactly the
\* fragments delivered, unchanged, once each and in order (followed by the
\* fallback response if the backend failed), no capability has been invoked,
\* no second request has been issued and chat_ctx is the caller's history.
C1_Passthrough ==
    (proc \in {"gemma", "openai"} /\ ~triggered /\ current_tool_calls = << >>) =>
        /\ output = received \o (IF failed THEN << FALLBACK >> ELSE << >>)
        /\ calls = << >> /\ invoked = << >> /\ executed = << >>
        /\ Len(requests) <= 1
        /\ chat_ctx = chat_ctx0
        /\ appended = << >>

\* C1 witness: the OpenAI processor has finished a stream whose text holds
\* the marker, cut so that no fragment holds it whole; its fragments, the
\* ones with '{' and '[' included, have all been yielded.
C1_Witness ==
    /\ proc = "openai"
    /\ Finished
    /\ ~triggered
    /\ stream_text = WeatherCall
    /\ Len(received) >= 2
    /\ output = received

\* C2: Gemma processor, stream "a" + a well-formed get_documentation call +
\* "a", however it is cut into fragments: when the turn has finished the
\* caller has received the whole prefix "a", get_context_qdrant has been
\* invoked exactly once, with the query of the object, and nothing of the
\* suffix has been yielded (the rest of the output is the resumed stream).
C2_PrefixCallSuffix ==
    (proc = "gemma" /\ Finished /\ stream_text = << CH >> \o DocCall \o << CH >>) =>
        /\ invoked = << JStr(<< "docs" >>) >>
        /\ output = << << CH >> >> \o resumed

\* the streams that are one well-formed tool-call object and nothing else
SoleCallTexts ==
    { DocCall,
      << LB, K_BOGUS, LB, RB, RB >>,
      << LB, K_DOC, LB, K_QUERY, QT, RB, QT, RB, RB >>,
      << LB, K_DOC, LB, K_QUERY, QT, LB, QT, RB, RB >> }

\* C3: Gemma processor, stream solely one well-formed tool-call object, in
\* one or several fragments: at the end of the turn chat_ctx has gained
\* exactly two messages (the call text, then the result), exactly one resume
\* request was issued, and the output is the fragments of the resumed stream.
C3_SoleCall ==
    (proc = "gemma" /\ Finished /\ stream_text \in SoleCallTexts) =>
        /\ Len(chat_ctx) = Len(chat_ctx0) + 2
        /\ SubSeq(chat_ctx, 1, Len(chat_ctx0)) = chat_ctx0
        /\ chat_ctx[Len(chat_ctx0) + 1] = Msg("assistant", stream_text)
        /\ chat_ctx[Len(chat_ctx0) + 2].role = "assistant"
        /\ Head(chat_ctx[Len(chat_ctx0) + 2].content) = "Function result: "
        /\ Len(chat_ctx[Len(chat_ctx0) + 2].content) >= 2
        /\ requests = << "initial", "resume" >>
        /\ output = resumed

\* what process_gemma_chat makes of text delivered as a single fragment: the
\* process_function_call calls it makes
UnsplitCalls(text) ==
    IF (\E i \in 1..Len(text) : text[i] = "{") /\ BraceCount(text) = 0
    THEN << FunctionCallPlan(text) >>
    ELSE << >>

\* C4: Gemma processor, stream one tool-call object (string values with '{'
\* or '}' in them included): whatever the cut into fragments, the JSON
\* detected, the parameters and the decision to invoke are those of the
\* delivery as a single fragment.
C4_BoundaryInvariant ==
    (proc = "gemma" /\ Finished /\ stream_text \in SoleCallTexts) =>
        calls = UnsplitCalls(stream_text)

\* a buffer with matched braces that is not valid JSON (a trailing comma),
\* followed by plain text
MalformedText == << LB, K_DOC, LB, K_QUERY, STR, COMMA, RB, RB, CH >>

\* C5: Gemma processor, accumulated buffer with matched braces that is not
\* valid JSON: no capability is invoked, chat_ctx is unchanged, no resume
\* request is issued, and the processor is back in passthrough for the
\* fragments that follow.
C5_MalformedDiscarded ==
    (proc = "gemma" /\ stream_text = MalformedText) =>
        /\ invoked = << >>
        /\ chat_ctx = chat_ctx0
        /\ \A i \in 1..Len(requests) : requests[i] # "resume"
        /\ (Finished => ~in_function_call)

\* the last element of a non-empty sequence
Last(seq) == seq[Len(seq)]

\* the ways a capability fails in process_function_call: it is unknown, or
\* its execution raised
FailureKinds == {"unknown", "raised"}

\* an execute_function_call call of a capability that is unknown or whose
\* execution raises: a name other than get_weather, arguments that are no
\* mapping, or no city among them
FailingExecution(e) ==
    \/ e.function_name # JStr(<< "get_weather" >>)
    \/ e.arguments.t # "obj"
    \/ \A i \in 1..Len(e.arguments.m) : e.arguments.m[i].k # "city"

\* the resume requests issued so far
ResumeRequests == Cardinality({ i \in 1..Len(requests) : requests[i] = "resume" })

\* the process_function_call calls that have returned a result
ReturnedCalls ==
    Cardinality({ i \in 1..Len(calls) : calls[i].kind # "none" })
    - (IF pc = "executing" THEN 1 ELSE 0)

\* C6: when the capability named is unknown or its execution raises, the
\* result is a non-empty string that describes the error, it is recorded
\* like any result, and the next request is still issued or about to be
\* (unless the backend itself fails): process_function_call in the Gemma
\* processors, execute_function_call in the OpenAI processor.
C6_FailureGoesOn ==
    /\ (proc = "ollama" /\ calls # << >> /\ Last(calls).kind \in FailureKinds) =>
          /\ Len(appended) = 1
          /\ Len(Last(appended).content) >= 2
          /\ Last(appended).content[2] \in
                { "Error: Unknown function '", "Error processing function call: '" }
          /\ ResumeRequests + (IF pc = "feed_request" THEN 1 ELSE 0) = ReturnedCalls
    /\ (proc = "gemma" /\ calls # << >> /\ Last(calls).kind \in FailureKinds) =>
          /\ Len(chat_ctx) = Len(chat_ctx0) + 2
          /\ Len(Last(chat_ctx).content) >= 2
          /\ Last(chat_ctx).content[2] \in
                { "Error: Unknown function '", "Error processing function call: '" }
          /\ \/ pc = "resume_request"
             \/ requests = << "initial", "resume" >>
    /\ (proc = "openai" /\ executed # << >>) =>
          /\ \A i \in 1..Len(executed) :
                FailingExecution(executed[i]) =>
                    /\ Len(executed[i].result) >= 2
                    /\ Head(executed[i].result) = "{\"error\": \""
          /\ \/ pc \in {"explain_request", "followup_request"}
             \/ /\ Len(requests) = 2
                /\ requests[2] \in {"explanation", "followup"}

\* C6 witness: the Gemma processor, after a call of an unknown capability,
\* is reading the resumed stream.
C6_Witness ==
    /\ proc = "gemma"
    /\ calls # << >> /\ Last(calls).kind = "unknown"
    /\ pc = "resumed"
    /\ resumed # << >>

\* C7: Gemma processor: no fragment yielded to the caller has a '{' or a
\* '}' in it, be it from the original or from the resumed stream.
C7_NoBraceYielded ==
    proc = "gemma" => \A i \in 1..Len(output) : ~HasBrace(output[i])

\* C8: in process_gemma_chat and process_openai_chat, chat_ctx is the
\* caller's history at every point before a tool call has fully resolved
\* (while passing through, accumulating, or executing);
\* the two synthetic messages are appended together, after the history, and
\* only once the result is available.
C8_HistoryUntouched ==
    /\ (proc \in {"gemma", "openai"} /\ pc \in {"request", "stream", "executing"}) =>
          chat_ctx = chat_ctx0
    /\ (proc \in {"gemma", "openai"} /\ chat_ctx # chat_ctx0) =>
          /\ Len(chat_ctx) = Len(chat_ctx0) + 2
          /\ SubSeq(chat_ctx, 1, Len(chat_ctx0)) = chat_ctx0
          /\ proc = "gemma" =>
                /\ calls # << >>
                /\ chat_ctx[Len(chat_ctx0) + 1].content = Strip(function_buffer)
                /\ \E context_result \in ContextResults \cup { << >> } :
                      /\ Last(calls).kind = "invoke" <=> context_result # << >>
                      /\ Last(chat_ctx).content = << "Function result: " >>
                            \o FunctionCallResult(Last(calls), context_result)
                /\ Len(Last(chat_ctx).content) >= 2
          /\ proc = "openai" =>
                /\ executed # << >>
                /\ chat_ctx[Len(chat_ctx0) + 1].content =
                      << "I called the following functions:\n" >> \o ResultsText(executed)

\* C8 witness: the Gemma processor has detected a call, get_context_qdrant
\* is running, and chat_ctx is still the caller's history.
C8_Witness ==
    /\ proc = "gemma"
    /\ pc = "executing"
    /\ invoked # << >>
    /\ chat_ctx = chat_ctx0
    /\ output # << >>

\* C9: Gemma processor: the resumed stream is treated as a fresh
\* passthrough stream; when it carries a tool-call payload, the payload is
\* intercepted and executed and a further resume request follows, and it is
\* not forwarded as text.
C9_ResumedIntercepted ==
    (proc = "gemma" /\ Finished /\ Concat(resumed) = DocCall) =>
        /\ Len(invoked) >= 1
        /\ Last(invoked) = JStr(<< "docs" >>)
        /\ Len(requests) >= 3
        /\ \A i \in 1..Len(output) : ~HasBrace(output[i])

\* the fallback response is in the output exactly once, as its last fragment
OneFallbackLast ==
    /\ output # << >>
    /\ Last(output) = FALLBACK
    /\ \A i \in 1..(Len(output) - 1) : output[i] # FALLBACK

\* C10: Gemma processor: when the backend fails (at the initial request,
\* while the original stream is read, at the resume request, or while the
\* resumed stream is read) the output stream ends with the fixed fallback
\* response, emitted exactly once as its last fragment, the generator has
\* ended, and no further backend request is issued (nothing more happens).
C10_FallbackEnds ==
    (proc = "gemma" /\ failed) =>
        /\ pc = "done"
        /\ OneFallbackLast
        /\ ~ENABLED Next

\* C10 witness: the backend failed while the resumed stream was read, after
\* part of it had been yielded.
C10_Witness ==
    /\ proc = "gemma"
    /\ failed
    /\ requests = << "initial", "resume" >>
    /\ resumed # << >>
    /\ resume_pending # << >>

---------------------------------------------------------------------------
(* Backend failures *)

\* the fallback responses of the processors
FailureFallbacks ==
    { FALLBACK, OLLAMA_STATUS_FALLBACK, OLLAMA_FALLBACK, FEED_STATUS_FALLBACK,
      FEED_FALLBACK }

\* the generator has ended normally and its last fragment is a fallback
EndedWithFallback ==
    /\ pc = "done"
    /\ output # << >>
    /\ Last(output) \in FailureFallbacks

\* C11: in every processor (gemma, ollama, openai, bedrock, mistral) a
\* failure of the backend request or of the backend stream ends the
\* generator normally after a fallback fragment; the failure never leaves
\* the generator as an exception.
C11_NoFailureEscapes ==
    failed => EndedWithFallback

\* C11 for the four processors that wrap the request and the stream in a
\* try/except
C11_CaughtElsewhere ==
    (failed /\ proc # "mistral") => EndedWithFallback

---------------------------------------------------------------------------
(* Serialized requests *)

\* sub occurs in text
IsInfix(sub, text) ==
    \E i \in 1..(Len(text) - Len(sub) + 1) :
        SubSeq(text, i, i + Len(sub) - 1) = sub

IsPrefix(sub, text) ==
    Len(sub) <= Len(text) /\ SubSeq(text, 1, Len(sub)) = sub

\* the texts a chat item holds
ItemTexts(msg) ==
    IF IsList(msg)
    THEN { msg.parts[i].text : i \in { j \in 1..Len(msg.parts) : IsStrPart(msg.parts[j]) } }
    ELSE { msg.content }

\* the images a chat item holds
ItemImages(msg) ==
    IF IsList(msg)
    THEN { msg.parts[i].image : i \in { j \in 1..Len(msg.parts) : IsImagePart(msg.parts[j]) } }
    ELSE { }

\* the blocks of the serialized request, as (message, block) positions
RequestBlocks ==
    { << m, b >> \in (1..Len(request_messages)) \X (1..4) :
        b <= Len(request_messages[m].content) }

BlockAt(pos) == request_messages[pos[1]].content[pos[2]]

IsImageBlock(block) == block.type \in {"image_url", "image"}

\* the image a block of the request carries
BlockImage(block) ==
    IF block.type = "image_url" THEN block.url
    ELSE [media_type |-> block.media_type, data |-> block.data]

\* text is in a text block of the request or in its system field
TextIsSent(text) ==
    \/ IsInfix(text, request_system)
    \/ \E pos \in RequestBlocks :
          BlockAt(pos).type = "text" /\ IsInfix(text, BlockAt(pos).text)

\* the request carries images of the last item only, no more of them than
\* the last item has
ImagesOfLastOnly ==
    /\ \A pos \in RequestBlocks :
          IsImageBlock(BlockAt(pos)) =>
              BlockImage(BlockAt(pos)) \in ItemImages(Last(chat_ctx0))
    /\ Cardinality({ pos \in RequestBlocks : IsImageBlock(BlockAt(pos)) })
          <= (IF IsList(Last(chat_ctx0))
              THEN Len(SelectSeq(Last(chat_ctx0).parts, IsImagePart))
              ELSE 0)

\* every text of every older item is in the request
OlderTextKept ==
    \A i \in 1..(Len(chat_ctx0) - 1) :
        \A text \in ItemTexts(chat_ctx0[i]) : TextIsSent(text)

\* C12: for every history, the request a processor serializes for its
\* backend carries image parts of the last item of the history only (the
\* image parts of older items are dropped) and keeps the text of every
\* older item.
C12_ImagesOfLastTextKept ==
    requests # << >> => (ImagesOfLastOnly /\ OlderTextKept)

\* C12 for process_gemma_chat and process_bedrock_chat
C12_GemmaBedrock ==
    (requests # << >> /\ proc # "openai") =>
        (ImagesOfLastOnly /\ OlderTextKept)

\* the images alone, for the three processors
C12_ImagesAlone ==
    requests # << >> => ImagesOfLastOnly

\* the texts of the system items of a history, in history order
RECURSIVE SystemItemTexts(_)
SystemItemTexts(items) ==
    IF items = << >> THEN << >>
    ELSE (IF Head(items).role = "system"
          THEN IF IsList(Head(items)) THEN TextParts(Head(items))
               ELSE << Head(items).content >>
          ELSE << >>)
         \o SystemItemTexts(Tail(items))

\* the built-in function instructions followed by the system items' texts
GemmaSystemText ==
    Join(<< GEMMA_INSTRUCTIONS >> \o SystemItemTexts(chat_ctx0), << SP >>)

UserMessages ==
    { m \in 1..Len(request_messages) : request_messages[m].role = "user" }

\* message m of the request starts with text
StartsWith(m, text) ==
    /\ request_messages[m].content # << >>
    /\ request_messages[m].content[1].type = "text"
    /\ IsPrefix(text, request_messages[m].content[1].text)

\* C13: for every chat_ctx, the first request of process_gemma_chat has no
\* message of role system, has at least one user message, and the system
\* text (the built-in function instructions followed by the text of every
\* system item, in history order) is at the start of the first user message
\* and at the start of no other message.
C13_SystemInFirstUser ==
    (proc = "gemma" /\ requests # << >>) =>
        /\ \A m \in 1..Len(request_messages) :
              request_messages[m].role # "system"
        /\ UserMessages # { }
        /\ \A m \in UserMessages :
              (\A k \in UserMessages : m <= k) => StartsWith(m, GemmaSystemText)
        /\ \A m \in 1..Len(request_messages) :
              (\E k \in UserMessages : k < m) =>
                  /\ ~StartsWith(m, GemmaSystemText)
                  /\ \A pos \in RequestBlocks :
                        (pos[1] = m /\ BlockAt(pos).type = "text") =>
                            ~IsInfix(GEMMA_INSTRUCTIONS, BlockAt(pos).text)
        /\ \A m \in 1..Len(request_messages) :
              request_messages[m].role # "user" =>
                  ~StartsWith(m, GemmaSystemText)

\* C13 witness: a request made for a history with a system item after the
\* first user item and a second run of user items; the first message of
\* the request is the assistant's.
C13_Witness ==
    /\ proc = "gemma"
    /\ requests # << >>
    /\ Len(chat_ctx0) = 3
    /\ chat_ctx0[1].role = "assistant"
    /\ chat_ctx0[2].role = "user"
    /\ chat_ctx0[3].role = "system"
    /\ Len(request_messages) = 2

\* C13 witness of the history without user items: the request is one user
\* message made of the system text
C13_WitnessNoUser ==
    /\ proc = "gemma"
    /\ requests # << >>
    /\ \A i \in 1..Len(chat_ctx0) : chat_ctx0[i].role = "system"
    /\ Len(chat_ctx0) = 2
    /\ Len(request_messages) = 1

HasRole(items, role) == \E i \in 1..Len(items) : items[i].role = role

\* the system instructions: the heading and the texts of the system items
OpenAISystemText ==
    << SYSTEM_HEAD >> \o Join(SystemItemTexts(chat_ctx0), << NL >>)

\* the first user message of the request starts with the system
\* instructions
FirstUserHasSystem ==
    /\ UserMessages # { }
    /\ \A m \in UserMessages :
          (\A k \in UserMessages : m <= k) => StartsWith(m, OpenAISystemText)

\* C14: for every chat_ctx with at least one system item and at least one
\* user item, the first request of process_openai_chat has the system
\* instructions at the start of its first user message, also when an
\* assistant message precedes the first user message of the history.
C14_SystemInFirstUser ==
    (/\ proc = "openai"
     /\ requests # << >>
     /\ HasRole(chat_ctx0, "system")
     /\ HasRole(chat_ctx0, "user")) => FirstUserHasSystem

\* the same for the histories whose first item that is no system item is a
\* user item with text
C14_UserFirst ==
    (/\ proc = "openai"
     /\ requests # << >>
     /\ HasRole(chat_ctx0, "system")
     /\ request_messages # << >>
     /\ request_messages[1].role = "user") => FirstUserHasSystem

\* the history system, assistant, user
C14_AssistantFirst ==
    (/\ proc = "openai"
     /\ requests # << >>
     /\ chat_ctx0 = << Msg("system", << "S1" >>), Msg("assistant", << "A1" >>),
                       Msg("user", << "U1" >>) >>) => FirstUserHasSystem

---------------------------------------------------------------------------
(* Function results and the caller's history *)

\* the result is in an item added to the caller's chat_ctx
ResultInHistory(result) ==
    \E k \in (Len(chat_ctx0) + 1)..Len(chat_ctx) :
        IsInfix(result, chat_ctx[k].content)

\* C15: whenever process_openai_chat has executed a function call, on the
\* "[TOOL_CALLS]" text path or on the native tool_calls path, the function
\* result is in the caller's chat_ctx when the follow-up request is made.
C15_ResultInHistory ==
    (proc = "openai" /\ executed # << >> /\ Len(requests) >= 2) =>
        \A i \in 1..Len(executed) : ResultInHistory(executed[i].result)

\* C15 on the "[TOOL_CALLS]" text path alone
C15_TextDialect ==
    (/\ proc = "openai"
     /\ executed # << >>
     /\ Len(requests) >= 2
     /\ requests[2] = "explanation") =>
        \A i \in 1..Len(executed) : ResultInHistory(executed[i].result)

---------------------------------------------------------------------------
(* Several objects in one buffer *)

\* C16: when the buffer handed to process_function_call holds several JSON
\* objects one after another, only the first complete object (the text up
\* to the first point where the brace nesting is back to zero) is parsed
\* and executed: the call made is the first object's, the capability is
\* invoked at most once, with the first object's query, and the rest of the
\* buffer causes no second call and is not yielded.
C16_FirstObjectOnly ==
    (proc = "gemma" /\ function_buffer = TwoCalls /\ calls # << >>) =>
        /\ Len(calls) = 1
        /\ calls[1].json = DocCall
        /\ calls[1].kind = "invoke"
        /\ calls[1].name = << "get_documentation" >>
        /\ invoked = << calls[1].query >>
        /\ calls[1].query = JStr(LiteralText(STR))
        /\ ~failed => output = resumed

\* C16 witness: the Gemma turn is over, the buffer handed to
\* process_function_call held both objects, and the capability has returned.
C16_Witness ==
    /\ proc = "gemma"
    /\ function_buffer = TwoCalls
    /\ Len(calls) = 1
    /\ Len(invoked) = 1
    /\ Finished
    /\ Len(requests) = 2

---------------------------------------------------------------------------
(* Two runs on the same inputs *)

\* the run is at the point where it takes the input
Awaited(input) ==
    CASE input.kind = "request" -> pc = "request"
      [] input.kind = "chunk" ->
            \/ pc = "stream" /\ IsPrefix(input.text, pending)
            \/ pc = "resumed" /\ IsPrefix(input.text, resume_pending)
      [] input.kind = "empty" -> pc \in {"stream", "resumed"}
      [] input.kind = "result" -> pc = "executing"
      [] input.kind = "resume" -> pc = "resume_request"
      [] input.kind = "end" ->
            \/ pc = "stream" /\ pending = << >>
            \/ pc = "resumed" /\ resume_pending = << >>
      [] OTHER -> pc \in {"request", "stream", "resume_request", "resumed"}

---------------------------------------------------------------------------
(* A turn that ends while a payload is accumulated *)

\* the text of a is in b, in order
RECURSIVE IsSubseq(_, _)
IsSubseq(a, b) ==
    IF a = << >> THEN TRUE
    ELSE IF b = << >> THEN FALSE
    ELSE IF Head(a) = Head(b) THEN IsSubseq(Tail(a), Tail(b))
    ELSE IsSubseq(a, Tail(b))

IsSuffix(sub, text) ==
    /\ Len(sub) <= Len(text)
    /\ SubSeq(text, Len(text) - Len(sub) + 1, Len(text)) = sub

\* the part of the original stream that has been delivered
Consumed == SubSeq(stream_text, 1, Len(stream_text) - Len(pending))

\* the payload being accumulated
Buffered ==
    IF proc = "gemma" THEN function_buffer ELSE accumulated_content

\* the original stream has ended, or the caller has abandoned the turn,
\* while a payload was being accumulated
EndedAccumulating ==
    /\ \/ proc = "gemma" /\ in_function_call
       \/ proc = "openai" /\ is_function_call
    /\ requests = << "initial" >>
    /\ Finished \/ pc = "abandoned"

\* C18: when the stream ends or the caller abandons the turn while
\* process_gemma_chat or process_openai_chat is accumulating a tool-call
\* payload, the buffered text is discarded: chat_ctx is the caller's
\* history, what has been yielded is text delivered before the buffered
\* text, and no capability has been invoked for it.
C18_PartialDiscarded ==
    EndedAccumulating =>
        /\ chat_ctx = chat_ctx0
        /\ IsSuffix(Buffered, Consumed)
        /\ IsSubseq(Concat(output),
                    SubSeq(Consumed, 1, Len(Consumed) - Len(Buffered)))
        /\ invoked = << >>
        /\ executed = << >>
        /\ plan = NoPlan

\* C18 witness: the Gemma stream ended inside a payload, after text that was
\* yielded.
C18_Witness ==
    /\ proc = "gemma"
    /\ EndedAccumulating
    /\ Finished
    /\ function_buffer # << >>
    /\ output # << >>

\* C18 witnesses: the caller abandoned the turn of process_openai_chat, and
\* of process_gemma_chat, inside a payload
C18_WitnessAbandoned ==
    /\ proc = "openai"
    /\ EndedAccumulating
    /\ pc = "abandoned"
    /\ pending # << >>
    /\ accumulated_content # << >>

C18_WitnessGemmaAbandoned ==
    /\ proc = "gemma"
    /\ EndedAccumulating
    /\ pc = "abandoned"
    /\ pending # << >>
    /\ Len(function_buffer) >= 2

---------------------------------------------------------------------------
(* Nesting depth *)

\* the original stream has a first '{' and, after it, a character at which
\* the nesting depth is back to zero
DepthReturnsToZero == ExtractJson(stream_text) # << >>

\* C19: process_gemma_chat tracks the nesting depth character by character
\* across fragments and leaves the accumulating state at the first
\* character where the depth is back to zero: when the whole original
\* stream has been read and it had such a character, the payload that ends
\* there has been handed to process_function_call, whatever follows the
\* closing brace in its fragment (more text, another '{', a surplus '}').
C19_DepthByCharacter ==
    (/\ proc = "gemma"
     /\ Finished
     /\ DepthReturnsToZero) =>
        /\ calls # << >>
        /\ calls[1].json = CleanJson(stream_text)

\* the stream is a call followed by a surplus '}' and text, and the '}' came
\* in the fragment that closed the call
SurplusBrace ==
    /\ proc = "gemma"
    /\ Finished
    /\ stream_text = DocCall \o << RB, CH >>
    /\ calls = << >>

\* C19 for the streams cut after the closing brace of the payload
C19_CutAtClosingBrace ==
    (/\ proc = "gemma"
     /\ Finished
     /\ stream_text = DocCall \o << RB, CH >>
     /\ received = << >>
     /\ function_buffer = DocCall) =>
        /\ calls # << >>
        /\ calls[1].json = DocCall

---------------------------------------------------------------------------
(* Conversation memory of process_langgraph_chat *)

\* the second call for the thread has answered
SecondAnswered ==
    /\ proc = "langgraph"
    /\ run = 2
    /\ pc = "done"
    /\ ~failed

SystemSent ==
    \E i \in 1..Len(request_messages) : request_messages[i].role = "system"

\* C20: process_langgraph_chat keeps the conversation of a thread_id from
\* one call to the next: when the second of two calls for a thread has
\* answered, the graph state begins with the messages the first call left
\* in it, and the second call has sent a system message only if the first
\* left no messages.
C20_PersistentMemory ==
    SecondAnswered =>
        /\ IsPrefix(first.state, memory)
        /\ SystemSent => first.state = << >>

\* the second call sent a system message although the first call left
\* messages for the thread
C20_SystemSentAgain ==
    /\ SecondAnswered
    /\ first.state # << >>
    /\ SystemSent

---------------------------------------------------------------------------
(* The resume boundary of process_gemma_ollama_chat *)

NonEmpty(fragments) == SelectSeq(fragments, LAMBDA f : f # << >>)

\* what feed_function_result_to_llm may have yielded by its end
FeedYields ==
    { resumed, Append(resumed, FEED_FALLBACK), << FEED_STATUS_FALLBACK >> }

\* a call has been made and its result fed back, and the processor reads
\* the original response again or has ended
OllamaResumed ==
    /\ proc = "ollama"
    /\ ResumeRequests > 0
    /\ pc \in {"stream", "done"}
    /\ ~failed

\* C21: process_gemma_ollama_chat has a single resume boundary in a turn:
\* once the result of a call has been fed back and the answer forwarded,
\* the caller has got the fragments that came before the call and what the
\* resumed stream gave and nothing else, and there has been one resume
\* request and at most one call of get_context_qdrant.
C21_SingleResumeBoundary ==
    OllamaResumed =>
        /\ \E fed \in FeedYields : NonEmpty(output) = received \o fed
        /\ ResumeRequests = 1
        /\ Len(invoked) <= 1

\* text of the original stream that follows the call has been forwarded
\* after the resumed stream
C21_SuffixForwarded ==
    /\ OllamaResumed
    /\ stream_text = << CH >> \o CtxCall \o << CH >>
    /\ resumed = << << CH, CH >> >>
    /\ output = << << CH >>, << CH, CH >>, << CH >> >>

---------------------------------------------------------------------------
(* The history after a call in process_gemma_ollama_chat *)

\* the request of feed_function_result_to_llm has been made
OllamaFed ==
    /\ proc = "ollama"
    /\ ResumeRequests > 0

\* C22: in process_gemma_ollama_chat, once the result of a call is fed
\* back, the history has gained a message that records the call and a
\* second message with the result: the resume request is the earlier
\* messages and these two, and chat_ctx holds both for the next turn.
C22_CallAndResultRecorded ==
    OllamaFed =>
        /\ Len(appended) = 2
        /\ appended[1].role = "assistant"
        /\ chat_ctx = chat_ctx0 \o appended

\* the resume request has been made with the result as the one new
\* message, a user message, and chat_ctx is as the caller passed it
C22_ResultOnly ==
    /\ OllamaFed
    /\ Len(appended) = 1
    /\ appended[1].role = "user"
    /\ chat_ctx = chat_ctx0

\* what the code does: a single user message with the result is added to
\* the copy of messages the resume request is made with, never to chat_ctx
C22_ResultInCopy ==
    OllamaFed =>
        /\ Len(appended) = 1
        /\ appended[1].role = "user"
        /\ chat_ctx = chat_ctx0

---------------------------------------------------------------------------
(* The fragments of a '[TOOL_CALLS]' payload *)

\* the explanation requests issued so far
ExplanationRequests ==
    Cardinality({ i \in 1..Len(requests) : requests[i] = "explanation" })

\* process_openai_chat has read to its end a stream that is one complete
\* '[TOOL_CALLS][...]' payload
PayloadStreamed ==
    /\ proc = "openai"
    /\ Finished
    /\ stream_text = WeatherCall

\* C23: however the backend splits a complete '[TOOL_CALLS][...]' payload
\* into fragments, process_openai_chat executes the call, requests the
\* explanation and yields the explanation and no part of the payload.
C23_AnySplit ==
    PayloadStreamed =>
        /\ Len(executed) = 1
        /\ ExplanationRequests = 1
        /\ output = resumed

\* the whole payload came in one fragment, the last of the stream: it was
\* put in accumulated_content and never parsed
C23_WholeInOneFragment ==
    /\ PayloadStreamed
    /\ accumulated_content = WeatherCall
    /\ executed = << >>
    /\ requests = << "initial" >>
    /\ output = << >>

\* the marker came split over two fragments: the payload was yielded
C23_MarkerSplit ==
    /\ PayloadStreamed
    /\ ~is_function_call
    /\ executed = << >>
    /\ Concat(output) = WeatherCall

\* when the call of such a stream was executed, the explanation was
\* requested and nothing but the explanation was yielded
C23_ExecutedThenExplained ==
    (PayloadStreamed /\ executed # << >>) =>
        /\ Len(executed) = 1
        /\ ExplanationRequests = 1
        /\ output = resumed

---------------------------------------------------------------------------
(* parse_mistral_function_calls *)

Parsed == proc = "parse" /\ pc = "done"

\* C24: for '[TOOL_CALLS]' followed by a well-formed JSON array of call
\* objects parse_mistral_parse_result returns the call objects of the
\* array, in order, also when an argument value holds a ']'; for a text
\* without such a payload it returns the empty list.
C24_ParsesPayload ==
    Parsed =>
        /\ \A p \in Payloads : parse_content = p.content => parse_result = p.calls
        /\ parse_content \in NoPayloadTexts => parse_result = << >>

\* the payloads none of whose characters before the closing one is a ']'
NoBracketInside(text) ==
    \A i \in 3..(Len(text) - 1) : text[i] # RSQ

\* C24 for the payloads with no ']' inside the array
C24_NoBracketInside ==
    Parsed =>
        /\ \A p \in Payloads :
              (parse_content = p.content /\ NoBracketInside(p.content))
                  => parse_result = p.calls
        /\ parse_content \in NoPayloadTexts => parse_result = << >>

\* a call whose argument is a string with a ']' was parsed to nothing
C24_BracketInString ==
    /\ Parsed
    /\ parse_content = << TOOL_, CALLS, LSQ, LB, K_WEATHER, LB, K_CITY, QT, RSQ, QT,
                    RB, RB, RSQ >>
    /\ parse_result = << >>

\* a call whose argument is an array was parsed to nothing
C24_NestedArray ==
    /\ Parsed
    /\ parse_content = << TOOL_, CALLS, LSQ, LB, K_WEATHER, LB, K_CITY, LSQ, PARIS,
                    RSQ, RB, RB, RSQ >>
    /\ parse_result = << >>

---------------------------------------------------------------------------
(* The roles in the requests of process_openai_chat *)

\* C25: no request process_openai_chat sends (the initial request, the
\* explanation request after a '[TOOL_CALLS]' call, the follow-up request
\* after native tool calls) has a message with role system.
C25_NoSystemMessage ==
    proc = "openai" =>
        \A i \in 1..Len(request_messages) : request_messages[i].role # "system"

\* C25 without the explanation request
C25_InitialAndFollowUp ==
    (proc = "openai" /\ ExplanationRequests = 0) =>
        \A i \in 1..Len(request_messages) : request_messages[i].role # "system"

\* an explanation request whose first message is the system item of chat_ctx
C25_SystemInExplanation ==
    /\ proc = "openai"
    /\ ExplanationRequests = 1
    /\ ~failed
    /\ request_messages[1] = [role |-> "system", content |-> << TextBlock(<< CH >>) >>]

\* a follow-up request made for a history with a system item
C25_FollowUpSent ==
    /\ proc = "openai"
    /\ requests = << "initial", "followup" >>
    /\ ~failed
    /\ chat_ctx[1].role = "system"
    /\ Len(request_messages) = 3

---------------------------------------------------------------------------
(* The roles in the requests of process_gemma_chat over two turns *)

AdjacentSameRole(messages) ==
    \E i \in 1..(Len(messages) - 1) : messages[i].role = messages[i + 1].role

\* the first turn left a call message and a result message in chat_ctx
AfterToolCallTurn ==
    /\ first # NoRun
    /\ Len(first.chat_ctx) >= 2
    /\ first.chat_ctx[Len(first.chat_ctx)].role = "assistant"
    /\ first.chat_ctx[Len(first.chat_ctx) - 1].role = "assistant"

\* C26: over the turns made on one chat_ctx, also after a turn with a tool
\* call, no request of process_gemma_chat, initial or resume, has two
\* adjacent messages with the same role.
C26_RolesAlternate ==
    proc = "gemma" => ~AdjacentSameRole(request_messages)

\* C26 for the first turn and for the turns that follow a turn without a
\* tool call
C26_WithoutToolCallTurn ==
    (proc = "gemma" /\ ~AfterToolCallTurn) =>
        ~AdjacentSameRole(request_messages)

\* the initial request of the turn after a tool-call turn holds the call
\* message and the result message one after the other, both as assistant
C26_CallThenResult ==
    /\ proc = "gemma"
    /\ AfterToolCallTurn
    /\ requests = << "initial" >>
    /\ ~failed
    /\ Len(request_messages) >= 3
    /\ request_messages[2].role = "assistant"
    /\ request_messages[3].role = "assistant"

\* a resume request has been made in the first turn
C26_ResumeInFirstTurn ==
    /\ proc = "gemma"
    /\ run = 3
    /\ first = NoRun
    /\ pc = "resumed"
    /\ Len(request_messages) = 3

---------------------------------------------------------------------------
(* Merging of same-role items in the first request of process_openai_chat *)

\* items i and i + 1 of the history have the same role, not system, and a
\* text each
SameRoleTexts(i) ==
    /\ chat_ctx0[i].role = chat_ctx0[i + 1].role
    /\ chat_ctx0[i].role # "system"
    /\ ItemTexts(chat_ctx0[i]) # { }
    /\ ItemTexts(chat_ctx0[i + 1]) # { }

\* one message of the request, of that role, has text with the text of
\* item i and then the text of item i + 1
MergedInOrder(i) ==
    \E pos \in RequestBlocks :
        /\ request_messages[pos[1]].role = chat_ctx0[i].role
        /\ BlockAt(pos).type = "text"
        /\ \E t \in ItemTexts(chat_ctx0[i]), u \in ItemTexts(chat_ctx0[i + 1]) :
              IsInfix(t \o << SP >> \o u, BlockAt(pos).text)

C27_WitnessAssistants ==
    /\ proc = "openai"
    /\ requests = << "initial" >>
    /\ chat_ctx0 = << Msg("assistant", << "A1" >>), Msg("assistant", << "A1" >>),
                      Msg("user", << "U1" >>) >>
    /\ Len(request_messages) = 2

---------------------------------------------------------------------------
(* Native tool calls that arrive over several deltas *)

\* the argument pieces of the deltas received, in order of arrival
ArgumentPieces ==
    Concat([i \in 1..Len(current_tool_calls) |-> current_tool_calls[i].arguments])

\* finish_reason "tool_calls" has been handled for deltas whose argument
\* pieces add up to {"city":"Paris"}
WeatherDeltasFinished ==
    /\ proc = "openai"
    /\ pc \in {"followup_request", "following"}
    /\ ArgumentPieces = << LB, K_CITY, PARIS, RB >>

\* C28: when the name and the arguments of one native tool call come over
\* several deltas of which only the first has the call id, process_openai_chat
\* keeps one call record for them and at finish_reason "tool_calls" executes
\* the function once, with the name given and all argument pieces put
\* together.
C28_OneRecordOneExecution ==
    WeatherDeltasFinished =>
        /\ Len(current_tool_calls) = 1
        /\ Len(executed) = 1
        /\ executed[1].function_name = JStr(<< "get_weather" >>)
        /\ executed[1].arguments =
              JObj(<< [k |-> "city", v |-> JStr(<< "Paris" >>)] >>)

\* C28 for the calls whose deltas all have the call id
C28_EveryDeltaWithId ==
    (/\ WeatherDeltasFinished
     /\ \A i \in 1..Len(current_tool_calls) : current_tool_calls[i].id # "None")
    =>
        /\ Len(current_tool_calls) = 1
        /\ Len(executed) = 1
        /\ executed[1].function_name = JStr(<< "get_weather" >>)
        /\ executed[1].arguments =
              JObj(<< [k |-> "city", v |-> JStr(<< "Paris" >>)] >>)

\* the second delta, without id, made a record of its own under None, and
\* nothing was executed
C28_RecordUnderNone ==
    /\ WeatherDeltasFinished
    /\ Len(current_tool_calls) = 2
    /\ current_tool_calls[1] = [id |-> "call_1",
                                function_name |-> << "get_weather" >>,
                                arguments |-> << LB, K_CITY >>]
    /\ current_tool_calls[2] = [id |-> "None", function_name |-> << >>,
                                arguments |-> << PARIS, RB >>]
    /\ executed = << >>

\* the call came in one delta and was executed
C28_OneDeltaExecuted ==
    /\ WeatherDeltasFinished
    /\ Len(current_tool_calls) = 1
    /\ Len(executed) = 1

---------------------------------------------------------------------------
(* What process_gemma_chat buffers while it accumulates a call *)

\* process_gemma_chat is accumulating, or has accumulated, a call of the
\* original stream, and no request or stream has raised
GemmaAccumulating ==
    /\ proc = "gemma"
    /\ in_function_call
    /\ requests = << "initial" >>
    /\ ~failed

\* every fragment received since and including the first one with a '{'
SinceFirstBrace == Drop(Consumed, Len(Concat(received)))

C29_WitnessAfterBrace ==
    /\ GemmaAccumulating
    /\ pc = "executing"
    /\ function_buffer = << CH >> \o DocCall \o << CH >>
    /\ output = << >>

\* C29 witness: text was forwarded before the fragment with the first '{'
C29_WitnessForwardedBefore ==
    /\ GemmaAccumulating
    /\ pc = "stream"
    /\ output = << << CH >> >>
    /\ Len(function_buffer) > 1
    /\ function_buffer[1] = LB

---------------------------------------------------------------------------
(* Calls of process_mistral_chat that share one thread_id *)

\* the human message made from the last item of chat_ctx
NewHumanMessage == Msg("user", HumanContent(chat_ctx[Len(chat_ctx)]))

\* the running call has passed its messages to the graph
PassedToGraph ==
    /\ proc = "mistral"
    /\ requests # << >>

\* an earlier call on the thread passed messages to the graph
EarlierPassed == \E i \in 1..Len(trace) : trace[i].passed # << >>

\* the state of the thread holds what it held after the call before, then
\* the messages of this call
HoldsEarlier ==
    Len(trace) > 0 =>
        IsPrefix(trace[Len(trace)].state \o request_messages, memory)

\* C30: in calls of process_mistral_chat with one thread_id the system
\* message goes to the graph only in the first call made with a chat_ctx
\* that has items, in front of the human message; every later call with
\* items in chat_ctx passes one human message, made from the last item of
\* chat_ctx, and the state of the thread still holds the earlier messages.
C30_SystemOncePerThread ==
    PassedToGraph =>
        /\ request_messages =
              (IF EarlierPassed THEN << >>
               ELSE << Msg("system", MISTRAL_SYSTEM) >>)
              \o << NewHumanMessage >>
        /\ HoldsEarlier

\* C30 as stated: the system message goes to the graph in the first call
\* only, every later call passes one human message made from the last item
\* of chat_ctx, and the state of the thread still holds the earlier messages.
C30_SystemInFirstCallOnly ==
    PassedToGraph =>
        /\ request_messages =
              (IF Len(trace) > 0 THEN << >>
               ELSE << Msg("system", MISTRAL_SYSTEM) >>)
              \o << NewHumanMessage >>
        /\ HoldsEarlier

\* C30 witness: the third call on a thread, after two calls that were
\* answered, passes the human message alone
C30_Witness ==
    /\ PassedToGraph
    /\ Len(trace) = 2
    /\ trace[1].passed = << Msg("system", MISTRAL_SYSTEM),
                            Msg("user", << CH >>) >>
    /\ trace[2].passed = << Msg("user", << "U1" >>) >>
    /\ request_messages = << Msg("user", << "U1" >>) >>
    /\ Len(memory) = 6
    /\ pc = "done"

\* C30 witness: the first call found chat_ctx empty and the second call
\* passes the system message
C30_WitnessEmptyFirst ==
    /\ PassedToGraph
    /\ Len(trace) = 1
    /\ trace[1] = [passed |-> << >>, state |-> << >>]
    /\ request_messages = << Msg("system", MISTRAL_SYSTEM),
                             Msg("user", << "U1" >>) >>

\* C30 witness: the call before raised, and its messages are in the state of
\* the thread
C30_WitnessAfterRaise ==
    /\ PassedToGraph
    /\ Len(trace) = 1
    /\ trace[1].state = trace[1].passed
    /\ trace[1].passed # << >>
    /\ request_messages = << NewHumanMessage >>

---------------------------------------------------------------------------
(* The text filter of process_mistral_chat *)

\* C31: between two fragments of the stream of process_mistral_chat,
\* in_tool_call_json is true only if bracket_count is greater than zero, so
\* that a fragment with a balanced '[...]' does not make the filter suppress
\* the ordinary fragment after it.
C31_FlagOnlyWhileOpen ==
    proc = "mistral" => (in_tool_call_json => bracket_count > 0)

\* C31 for the fragments that follow the one that closed the brackets
C31_YieldedOnceClosed ==
    (/\ proc = "mistral"
     /\ Len(received) >= 3
     /\ received[1] = << CH, LSQ, CH >>
     /\ received[2] = << RSQ >>
     /\ received[3] = << CH >>)
    => output = << << CH >> >>

\* the fragment 'a[a]' left in_tool_call_json set with bracket_count 0
C31_FlagSetWhenBalanced ==
    /\ proc = "mistral"
    /\ received = << << CH, LSQ, CH, RSQ >> >>
    /\ in_tool_call_json
    /\ bracket_count = 0

\* the ordinary fragment after 'a[a]' was suppressed: the stream is over and
\* nothing was yielded
C31_NextSuppressed ==
    /\ proc = "mistral"
    /\ received = << << CH, LSQ, CH, RSQ >>, << CH >> >>
    /\ pc = "done"
    /\ output = << >>

\* the brackets were closed by a later fragment and the fragment after it
\* was yielded
C31_ClosedThenYielded ==
    /\ proc = "mistral"
    /\ received = << << CH, LSQ, CH >>, << RSQ >>, << CH >> >>
    /\ output = << << CH >> >>

---------------------------------------------------------------------------
(* Fallback fragments of process_gemma_ollama_chat *)

\* the fallback texts process_gemma_ollama_chat and
\* feed_function_result_to_llm yield
OllamaFallbacks ==
    { OLLAMA_FALLBACK, OLLAMA_STATUS_FALLBACK, FEED_FALLBACK,
      FEED_STATUS_FALLBACK }

\* the positions of the fallback fragments in the output
FallbackPositions == { i \in 1..Len(output) : output[i] \in OllamaFallbacks }

\* C32: process_gemma_ollama_chat yields at most one fallback fragment in a
\* turn, and a fallback fragment is the last fragment of the turn, also when
\* the request of feed_function_result_to_llm fails and the original stream
\* fails after it.
C32_OneFallbackLast ==
    proc = "ollama" =>
        /\ Cardinality(FallbackPositions) <= 1
        /\ \A i \in FallbackPositions : i = Len(output)

\* C32 for the turns in which no function result is fed back
C32_WithoutFeed ==
    (proc = "ollama" /\ ResumeRequests = 0) =>
        /\ Cardinality(FallbackPositions) <= 1
        /\ \A i \in FallbackPositions : i = Len(output)

\* the request of feed_function_result_to_llm failed, the original stream
\* failed after it, and the turn has two fallback fragments
C32_TwoFallbacks ==
    /\ proc = "ollama"
    /\ pc = "done"
    /\ output = << FEED_FALLBACK, OLLAMA_FALLBACK >>

\* text of the original stream was yielded after the fallback fragment of
\* feed_function_result_to_llm
C32_TextAfterFallback ==
    /\ proc = "ollama"
    /\ pc = "done"
    /\ ~failed
    /\ Len(output) = 2
    /\ output[1] = FEED_FALLBACK
    /\ output[2] \notin OllamaFallbacks

\* the first request failed: one fallback fragment and nothing else
C32_OnlyFallback ==
    /\ proc = "ollama"
    /\ pc = "done"
    /\ output = << OLLAMA_FALLBACK >>

---------------------------------------------------------------------------
(* A completed buffer without a JSON object in process_gemma_chat *)

\* the number of '{' in text
RECURSIVE OpeningBraces(_)
OpeningBraces(text) ==
    IF text = << >> THEN 0
    ELSE (IF Head(text) = LB THEN 1 ELSE 0) + OpeningBraces(Tail(text))

\* process_function_call returned "" for the completed buffer, and the
\* fragments delivered after it have no brace
EmptyResult ==
    /\ proc = "gemma"
    /\ ~failed
    /\ Len(calls) = 1
    /\ calls[1].kind = "none"
    /\ OpeningBraces(Consumed) = 1

\* what was delivered is the forwarded fragments, then a buffer with the
\* '{' and balanced braces, then the text forwarded after it
DroppedThenForwarded ==
    \E n \in 1..(Len(Consumed) - Len(Concat(received))) :
       /\ Contains(SubSeq(SinceFirstBrace, 1, n), LB)
       /\ BraceCount(SubSeq(SinceFirstBrace, 1, n)) = 0
       /\ Concat(output) = Concat(received) \o Drop(SinceFirstBrace, n)

\* C33: when process_function_call returns "" for a completed buffer (no
\* complete JSON object in it, as in '}{'), process_gemma_chat makes no
\* resume request, leaves chat_ctx as it was, drops the buffer, resets
\* in_function_call and forwards the brace-free fragments that follow in the
\* same stream.
C33_EmptyResultReadsOn ==
    EmptyResult =>
        /\ requests = << "initial" >>
        /\ chat_ctx = chat_ctx0
        /\ appended = << >>
        /\ function_buffer = << >>
        /\ ~in_function_call
        /\ pc \in {"stream", "done", "abandoned"}
        /\ DroppedThenForwarded

\* C33 witness: the fragment '}{' was dropped and the fragment after it was
\* forwarded
C33_Witness ==
    /\ EmptyResult
    /\ stream_text = << RB, LB, CH >>
    /\ pc = "done"
    /\ output = << << CH >> >>

\* C33 witness: the text after '}{' in the same fragment is dropped with it
C33_WitnessSameFragment ==
    /\ EmptyResult
    /\ stream_text = << RB, LB, CH >>
    /\ pc = "done"
    /\ output = << >>

---------------------------------------------------------------------------
(* The video streams and the frames of the agents *)

\* the streams that are open
OpenStreams == { i \in 1..Len(streams) : streams[i] = "open" }

\* every stream but the one made last is closed
OnlyLastOpen ==
    /\ \A i \in 1..Len(streams) : i # video_stream => streams[i] = "closed"
    /\ Cardinality(OpenStreams) <= 1

\* C34: in each agent that buffers video frames, after any number of calls
\* of _create_video_stream (for the track there on enter, then for
\* track_subscribed events) every VideoStream but the one made last is
\* closed, so at most one is open.
C34_OneStreamOpen ==
    agent \in Agents => OnlyLastOpen

\* C34 for the agents that call close()
C34_WithClose ==
    agent \in Agents \ {"example.py"} => OnlyLastOpen

\* example.py has made a second stream and the first is still open
C34_TwoOpenInExample ==
    /\ agent = "example.py"
    /\ streams = << "open", "open" >>
    /\ video_stream = 2

\* vision_agent.py has made three streams and only the last is open
C34_LastOpen ==
    /\ agent = "vision_agent.py"
    /\ streams = << "closed", "closed", "open" >>
    /\ video_stream = 3

\* the frames attached to the messages of the user turns
AttachedFrames == { attached[i] : i \in 1..Len(attached) } \ {0}

\* C35: in vision_agent.py, vision_agent_fixed.py and customImage.py, however
\* the frame reader and on_user_turn_completed interleave, a frame is
\* attached to at most one user message: attaching sets _latest_frame to
\* None, and a turn completed before the reader has stored a new frame gets
\* no image.
C35_FrameAttachedOnce ==
    agent \in Agents \ {"example.py"} =>
        /\ \A i, j \in 1..Len(attached) :
              (i # j /\ attached[i] # 0) => attached[i] # attached[j]
        /\ latest_frame \notin AttachedFrames

\* C35 witness: a turn got frame 1, the next turn came before a new frame
\* and got none, and the turn after it got frame 2
C35_Witness ==
    /\ agent = "vision_agent_fixed.py"
    /\ attached = << 1, 0, 2 >>
    /\ latest_frame = 0

\* C35 witness: a frame stored over an older one that no turn had taken
C35_WitnessOverwritten ==
    /\ agent = "customImage.py"
    /\ captured = 2
    /\ attached = << 2 >>

---------------------------------------------------------------------------
(* The ToolMessages of tool_node *)

\* tool_node has returned
ToolNodeReturned == proc = "tool_node" /\ pc = "chat"

\* C36: for an AI message with n tool calls tool_node returns n
\* ToolMessages in call order, the i-th with the id of the i-th call; a call
\* of an unknown tool gets the content 'Tool <name> not found', a tool that
\* raises gets 'Error executing <name>: ...'; tool_node does not raise, and
\* the graph goes back to the chat node.
C36_OneMessagePerCall ==
    /\ proc = "tool_node" => pc \in {"request", "tools", "chat"}
    /\ ToolNodeReturned =>
         /\ Len(tool_results) = Len(ai_tool_calls)
         /\ \A i \in 1..Len(ai_tool_calls) :
              /\ tool_results[i].tool_call_id = ai_tool_calls[i].id
              /\ ai_tool_calls[i].name \notin TOOLS =>
                    tool_results[i].content =
                       << "Tool ", ai_tool_calls[i].name, " not found" >>
              /\ tool_raised[i] =>
                    SubSeq(tool_results[i].content, 1, 3) =
                       << "Error executing ", ai_tool_calls[i].name, ": " >>
              /\ (ai_tool_calls[i].name \in TOOLS /\ ~tool_raised[i]) =>
                    tool_results[i].content = TOOL_TEXT

\* C36 witness: an unknown tool, then a tool that raised
C36_Witness ==
    /\ ToolNodeReturned
    /\ ai_tool_calls = << [name |-> "bogus", id |-> "call_b"],
                          [name |-> "get_context", id |-> "call_a"] >>
    /\ tool_raised = << FALSE, TRUE >>
    /\ tool_results =
         << [content |-> << "Tool ", "bogus", " not found" >>,
             tool_call_id |-> "call_b"],
            [content |-> << "Error executing ", "get_context", ": " >>
                         \o TOOL_ERROR,
             tool_call_id |-> "call_a"] >>

\* C36 witness: a message without tool calls
C36_WitnessNoCalls ==
    /\ ToolNodeReturned
    /\ ai_tool_calls = << >>
    /\ tool_results = << >>

---------------------------------------------------------------------------
(* perform_similarity_search and get_context_qdrant without a collection *)

\* perform_similarity_search, called from outside or by get_context_qdrant,
\* has neither collection_name nor project_name
NoCollection ==
    /\ entry \in {"perform_similarity_search", "get_context_qdrant"}
    /\ collection_name = None
    /\ project_name \in {None, << >>}

\* C37: perform_similarity_search called with neither collection_name nor
\* project_name returns the empty list and sends no request to the
\* embedding service or to the vector store, and get_context_qdrant then
\* returns 'No relevant context found in the knowledge base.'; neither
\* function raises, whatever the services do.
C37_NoCollectionNoRequest ==
    /\ (NoCollection /\ pc \in {"searched", "done"}) =>
         /\ search_results = << >>
         /\ contacted = { }
    /\ (NoCollection /\ entry = "get_context_qdrant" /\ pc = "done") =>
         formatted_context = NO_CONTEXT
    /\ proc = "tools" =>
         pc \in {"request", "embedding", "qdrant", "searched", "normalized",
                 "done"}
    /\ (entry \in {"perform_similarity_search", "get_context_qdrant"}
        /\ pc = "done") =>
         /\ search_results # NotReturned
         /\ entry = "get_context_qdrant" => formatted_context # None

\* C37 witness: get_context_qdrant without a project has returned
C37_Witness ==
    /\ entry = "get_context_qdrant"
    /\ project_name = None
    /\ pc = "done"
    /\ contacted = { }
    /\ formatted_context = NO_CONTEXT

\* C37 witness: perform_similarity_search with an empty project name
C37_WitnessEmptyName ==
    /\ entry = "perform_similarity_search"
    /\ NoCollection
    /\ project_name = << >>
    /\ pc = "done"
    /\ search_results = << >>

\* C37 witness: with a project both services were asked, and a result that
\* is no object made get_context_qdrant return its error text
C37_WitnessErrorText ==
    /\ entry = "get_context_qdrant"
    /\ pc = "done"
    /\ contacted = {"embedding", "qdrant"}
    /\ formatted_context[1] = "Error retrieving context: "

---------------------------------------------------------------------------
(* normalize_collection_name *)

\* no two underscores side by side, none in front and none at the end
SingleInnerUnderscores(name) ==
    /\ \A i \in 1..(Len(name) - 1) : ~(name[i] = "_" /\ name[i + 1] = "_")
    /\ name # << >> => (name[1] # "_" /\ name[Len(name)] # "_")

\* C38: for every project name normalize_collection_name returns a string
\* of lowercase letters, digits and single underscores, without an
\* underscore in front or at the end, and normalizing that result returns
\* it unchanged.
C38_CanonicalAndIdempotent ==
    /\ (entry = "normalize_collection_name" /\ pc \in {"normalized", "done"})
       =>
         /\ \A i \in 1..Len(normalized) : normalized[i] \in {"a", "b", "7", "_"}
         /\ SingleInnerUnderscores(normalized)
    /\ (entry = "normalize_collection_name" /\ pc = "done") =>
         renormalized = normalized

\* C38 witness: 'B a' becomes 'b_a' and stays so
C38_Witness ==
    /\ entry = "normalize_collection_name"
    /\ pc = "done"
    /\ project_name = << "B", " ", "a" >>
    /\ normalized = << "b", "_", "a" >>
    /\ renormalized = << "b", "_", "a" >>

\* C38 witness: a name without a letter or a digit becomes the empty string
C38_WitnessEmpty ==
    /\ entry = "normalize_collection_name"
    /\ pc = "done"
    /\ project_name = << "_", "e-acute", "-" >>
    /\ normalized = << >>

\* C38 witness: underscores and other characters in a row become one
\* underscore
C38_WitnessRun ==
    /\ entry = "normalize_collection_name"
    /\ pc = "done"
    /\ project_name = << "7", "_", "-" >>
    /\ normalized = << "7" >>

=============================================================================
